---- MODULE Spec2Model ----
(***************************************************************************)
(* Model of the hybrid retrieval and graph expansion engine of graph-rag  *)
(* (src/src/services/retrieval.py), of its entity extractor               *)
(* (src/src/services/entity_extractor.py), of its knowledge builder       *)
(* (src/src/services/knowledge_builder.py), of the build endpoints        *)
(* (src/src/api/build.py, src/src/services/build.py) and of the lazily    *)
(* created graph connection (src/src/services/graph_store.py).            *)
(*                                                                         *)
(* Scores are fixed-point hundredths (0.4 is 40, 0.6 is 60), so a mean    *)
(* "sum / len >= 0.5" is the integer comparison "sum >= 50 * len".         *)
(* Vertex ids and names are strings, tested for prefix and suffix as the  *)
(* code does.                                                              *)
(***************************************************************************)
EXTENDS Integers, Sequences, FiniteSets, TLC

\* ------------------------------------------------------------------ bounds
MaxEdges == 3
MaxSeeds == 1
MaxDepth == 2
MaxHits == 2
MaxBackendHits == 3
MaxGateResults == 6
MaxMergeEntities == 2
MaxMergeRelationships == 3
MaxFaults == 1
MaxJsonLen == 3
MaxContextEdges == 3
MaxSeedResults == 3
MaxRequests == 3

\* ------------------------------------------------------- program constants
SEED_LIMIT == 10
NEIGHBOR_LIMIT == 15
MATCH_LIMIT == 50
MIN_SIMILARITY_THRESHOLD == 40
MIN_AVG_SCORE_FOR_GRAPH == 50
MIN_MAX_SCORE_FOR_GRAPH == 60
GATE_TOP == 5
DIRECT_SEEDS_ENOUGH == 3
CHUNK_LOOKUP_LIMIT == 5
NAME_LOOKUP_LIMIT == 5

PRIORITY_EDGE_TYPES ==
  {"works_for", "located_in", "founded", "belongs_to",
   "related_to", "knows", "uses", "has"}

\* ------------------------------------------------------------ the universe
\* two entity vertices and one chunk vertex; edges leave entity vertices only
\* (relationships join entities, a chunk is only ever the target of an edge)
EntityVids == {"e_a", "e_b"}
ChunkVids == {"chunk_1"}
Vids == EntityVids \cup ChunkVids
EdgeTypes == {"works_for", "mentions"}

\* every directed, typed edge the store may hold between the vertices
AllEdges == [src : EntityVids, type : EdgeTypes, dst : Vids]

\* the graphs of at most MaxEdges edges
Graphs == {g \in SUBSET AllEdges : Cardinality(g) <= MaxEdges}

\* the vertices' name property and tag, as the store holds them
NameOf == [v \in Vids |-> CASE v = "e_a" -> "Alice" [] v = "e_b" -> "Acme" [] OTHER -> ""]
TagOf == [v \in Vids |-> CASE v = "e_a" -> "person" [] v = "e_b" -> "organization"
                            [] OTHER -> "chunk"]

\* "Entity extracted from chunk" edges, from the entity to its chunk
ExtractedFromEdges == [src : EntityVids, type : {"extracted_from"}, dst : ChunkVids]

SearchTypes == {"hybrid", "vector", "graph"}

\* GraphContext | None
NoContext == [present |-> FALSE, nodes |-> <<>>, edges |-> <<>>]

VARIABLES
  search_type,        \* retrieve: "hybrid", "vector" or "graph"
  caller_expand,      \* retrieve: expand_graph as the caller passed it
  expand_graph,       \* retrieve: the local expand_graph (forced in graph mode)
  use_llm,            \* retrieve: whether an answer is wanted
  graph_depth,        \* retrieve: depth handed to expand
  hits,               \* the vector backend's answer to the top-k search
  min_score,          \* VectorSearchService.search: the threshold
  results,            \* response.results
  sources,            \* response.sources
  errors,             \* response.errors
  graph_context,      \* response.graph_context
  answer,             \* response.answer
  success,            \* response.success
  should_expand,      \* value of should_expand_graph at step 2
  failed,             \* the stages that raised, in order
  trace,              \* the stages that were invoked, in order
  pc,                 \* retrieve: "search", "expansion", "expanding", "answer", "done"
  graph,              \* content of the graph space: a set of edges
  entity_ids,         \* expand: the seed ids passed in
  max_depth,          \* expand: the depth bound passed in
  pending_expansion,  \* expand: FIFO of (node id, depth)
  seen_nodes,         \* expand: ids whose incident edges were queried
  seen_edges,         \* expand: edge keys already recorded
  nodes,              \* expand: GraphContext.nodes under construction
  edges,              \* expand: GraphContext.edges under construction
  queried,            \* expand: log of the incident-edge queries issued
  failed_queries,     \* expand: the ids whose incident-edge query failed, in order
  exp_pc,             \* expand: "idle", "loop" or "done"
  extractions,        \* merge_results: the list of ExtractionResult passed in
  raw_json,           \* _fix_json: the text passed in
  fixed,              \* _fix_json: the text returned
  context,            \* build_context: the rendered parts, in order
  seed_out,           \* retrieve step 2: the outcome of the seed collection
  call_pc,            \* position of a single call: "idle", "call" or "done"
  build_pc,           \* build_from_text: the phase about to run
  source_name,        \* build_from_text: source_name
  text,               \* build_from_text: text
  chunks,             \* build_from_text: what the chunker returns for text
  llm_plan,           \* the answers the LLM may give to an extraction prompt
  extractor_ok,       \* whether the extractor (and its LLM client) can be constructed
  run,                \* the number of the build running
  last_run,           \* the number of builds requested
  timestamp,          \* build_from_text: timestamp
  all_entities,       \* build_from_text: all_entities
  all_relationships,  \* build_from_text: all_relationships
  merged,             \* the ExtractionResult returned by merge_results
  entity_vid_map,     \* build_from_text: lower-cased name -> vid, in insertion order
  entities_created,   \* build_from_text: entities_created
  relationships_created, \* build_from_text: relationships_created
  build_errors,       \* build_from_text: errors
  build_result,       \* the BuildResult returned
  vertices,           \* content of the graph space: the tagged vertices
  vectors,            \* content of the vector collection: the points
  doc_id,             \* build_from_text: doc_id
  chunk_ids,          \* build_from_text: chunk_ids
  build_i,            \* build_from_text: position in the loop that is running
  build_log,          \* log of the extractions and store writes of the running build
  faults_left,        \* store faults the environment may still inject
  first_run,          \* what the first build generated and wrote
  build_service,      \* services/build.py: _build_service, None or its fields
  served,             \* log of the build requests: the sizes asked for and used
  retrieval_service,  \* services/retrieval.py: _retrieval_service, 0 for None
  svc_graph_service,  \* per RetrievalService: graph_expansion._graph_service, 0 for None
  graph_services,     \* per NebulaGraphService: _pool (0 for None) and _initialized
  pools,              \* per ConnectionPool created: the number of init calls
  req                 \* per request thread: its position and its locals

expVars == <<graph, entity_ids, max_depth, pending_expansion, seen_nodes,
             seen_edges, nodes, edges, queried, failed_queries,
             exp_pc>>

retVars == <<search_type, caller_expand, expand_graph, use_llm, graph_depth, hits,
             min_score, results, sources, errors, graph_context, answer, success,
             should_expand, failed, trace, pc>>

callVars == <<extractions, raw_json, fixed, context, seed_out, call_pc>>

\* what a build is given
buildInput == <<source_name, text, chunks, llm_plan, extractor_ok, last_run>>

\* the locals of build_from_text, except merged
buildLocals == <<timestamp, doc_id, chunk_ids, build_i, all_entities,
                 all_relationships, entity_vid_map, entities_created,
                 relationships_created, build_errors, build_result, build_log>>

buildVars == <<build_pc, buildInput, run, buildLocals, merged, vertices, vectors,
               faults_left, first_run>>

\* the locals of expand
expLocals == <<entity_ids, max_depth, pending_expansion, seen_nodes, seen_edges,
               nodes, edges, queried, failed_queries, exp_pc>>

\* the module-level singletons and the objects behind them
svcVars == <<build_service, served, retrieval_service, svc_graph_service,
             graph_services, pools, req>>

otherVars == <<callVars, buildVars, svcVars>>

vars == <<retVars, expVars, otherVars>>

\* ----------------------------------------------------------------- helpers
Min(a, b) == IF a < b THEN a ELSE b

Prefix(s, n) == SubSeq(s, 1, Min(n, Len(s)))

Range(s) == {s[i] : i \in 1..Len(s)}

\* all orderings of a finite set
Perms(S) ==
  {p \in [1..Cardinality(S) -> S] : \A x \in S : \E i \in 1..Cardinality(S) : p[i] = x}

\* sequences over S of length at most n
SeqsUpTo(S, n) == UNION {[1..k -> S] : k \in 0..n}

\* --------------------------------------------------------- the graph store
\* MATCH (n)-[e]-(m) WHERE id(n) == vid: the edges incident to vid
IncidentEdges(g, vid) == {e \in g : e.src = vid \/ e.dst = vid}

\* the row the store returns for one incident edge: m is the other endpoint
RowOf(e, vid) ==
  [dst_id |-> IF e.src = vid THEN e.dst ELSE e.src, edge_type |-> e.type]

\* a graph with a vertex of more neighbours than expand follows: "e_a"
\* joined to sixteen further vertices, by edges of both kinds
LeafIds ==
  <<"n01", "n02", "n03", "n04", "n05", "n06", "n07", "n08",
    "n09", "n10", "n11", "n12", "n13", "n14", "n15", "n16">>

HubEdges ==
  [i \in 1..Len(LeafIds) |->
     [src |-> "e_a", type |-> IF i % 2 = 0 THEN "works_for" ELSE "mentions",
      dst |-> LeafIds[i]]]

WideGraph == Range(HubEdges)

Reversed(s) == [i \in 1..Len(s) |-> s[Len(s) + 1 - i]]

\* the orders in which the store may return a set of edges: any order; of
\* the edges of the wide graph, the order of the leaves and its reverse
EdgeOrders(S) ==
  IF S \subseteq WideGraph
  THEN {SelectSeq(HubEdges, LAMBDA e : e \in S),
        Reversed(SelectSeq(HubEdges, LAMBDA e : e \in S))}
  ELSE Perms(S)

\* the possible answers to the incident-edge query: the incident edges in
\* any order, cut at LIMIT 50
MatchResults(g, vid) ==
  {Prefix([i \in 1..Cardinality(IncidentEdges(g, vid)) |-> RowOf(p[i], vid)],
          MATCH_LIMIT) : p \in EdgeOrders(IncidentEdges(g, vid))}

\* ---------------------------------------------------------------- expand
\* priority_rows + other_rows
SortedRows(rows) ==
  SelectSeq(rows, LAMBDA r : r.edge_type \in PRIORITY_EDGE_TYPES)
    \o SelectSeq(rows, LAMBDA r : r.edge_type \notin PRIORITY_EDGE_TYPES)

\* a bug: no neighbour is added to the node list
AddsNodeNever(dst_id, seen) == FALSE

\* does the code add the neighbour of a row to the node list
AddsNode(dst_id, seen) == dst_id \notin seen

\* a bug: the two branches swapped
AddNeighborSwapped(nte, dst_id, edge_type) ==
  IF edge_type \in PRIORITY_EDGE_TYPES
  THEN Append(nte, dst_id)
  ELSE <<dst_id>> \o nte

\* neighbors_to_expand.insert(0, dst_id) for a priority edge, else append
AddNeighbor(nte, dst_id, edge_type) ==
  IF edge_type \in PRIORITY_EDGE_TYPES
  THEN <<dst_id>> \o nte
  ELSE Append(nte, dst_id)

\* a bug: only the key of the direction at hand is looked up
IsNewEdgeDirected(edge_key, reverse_key, seen) == edge_key \notin seen

\* "if edge_key not in seen_edges and reverse_key not in seen_edges"
IsNewEdge(edge_key, reverse_key, seen) ==
  edge_key \notin seen /\ reverse_key \notin seen

\* one pass of "for row in sorted_rows" over rows[i..]; st carries
\* nodes, edges, seen_edges and neighbors_to_expand
RECURSIVE ProcessRows(_, _, _, _, _)
ProcessRows(rows, i, vid, seen, st) ==
  IF i > Len(rows) THEN st
  ELSE
    LET dst_id == rows[i].dst_id
        edge_type == rows[i].edge_type
        edge_key == <<vid, edge_type, dst_id>>
        reverse_key == <<dst_id, edge_type, vid>>
        newEdge == IsNewEdge(edge_key, reverse_key, st.seen_edges)
        st1 == [st EXCEPT
                  !.nodes = IF AddsNode(dst_id, seen)
                            THEN Append(@, [id |-> dst_id]) ELSE @,
                  !.edges = IF newEdge
                            THEN Append(@, [source |-> vid, target |-> dst_id,
                                            type |-> edge_type])
                            ELSE @,
                  !.seen_edges = IF newEdge THEN @ \cup {edge_key} ELSE @,
                  !.nte = IF dst_id \notin seen
                          THEN AddNeighbor(@, dst_id, edge_type)
                          ELSE @]
    IN ProcessRows(rows, i + 1, vid, seen, st1)

\* a bug: the seeds enqueued at depth 0
SeedEntriesAtZero(ids) ==
  [i \in 1..Len(Prefix(ids, SEED_LIMIT)) |-> [vid |-> ids[i], depth |-> 0]]

\* pending_expansion after construction: the first 10 seeds at depth 1
SeedEntries(ids) ==
  [i \in 1..Len(Prefix(ids, SEED_LIMIT)) |-> [vid |-> ids[i], depth |-> 1]]

\* a bug: every neighbour returned is followed
EnqueuedUncapped(nte, depth, maxd, seen) ==
  IF depth < maxd
  THEN LET cand == SelectSeq(nte, LAMBDA n : n \notin seen)
       IN [k \in 1..Len(cand) |-> [vid |-> cand[k], depth |-> depth + 1]]
  ELSE <<>>

\* the neighbours enqueued after a node was processed at the given depth
Enqueued(nte, depth, maxd, seen) ==
  IF depth < maxd
  THEN LET cand == SelectSeq(Prefix(nte, NEIGHBOR_LIMIT), LAMBDA n : n \notin seen)
       IN [k \in 1..Len(cand) |-> [vid |-> cand[k], depth |-> depth + 1]]
  ELSE <<>>

\* the seed lists tried: every list of at most MaxSeeds ids, and lists
\* longer than the seed limit (ten copies of one id, then another id)
SeedLists ==
  SeqsUpTo(Vids, MaxSeeds)
    \cup {[i \in 1..(SEED_LIMIT + 1) |-> IF i <= SEED_LIMIT THEN p[1] ELSE p[2]] :
            p \in {q \in Vids \X Vids : q[1] # q[2]}}

\* a bug: process_node without the test of seen_nodes
NeverSeen(vid, seen) == FALSE

\* "if vid in seen_nodes: return"
IsSeen(vid, seen) == vid \in seen

ExpandStart(ids, maxd) ==
  /\ entity_ids' = ids
  /\ max_depth' = maxd
  /\ pending_expansion' = SeedEntries(ids)
  /\ seen_nodes' = {}
  /\ seen_edges' = {}
  /\ nodes' = <<>>
  /\ edges' = <<>>
  /\ queried' = <<>>
  /\ failed_queries' = <<>>
  /\ exp_pc' = "loop"

\* an entry deeper than max_depth is dropped
ExpandSkipDeep ==
  /\ exp_pc = "loop"
  /\ UNCHANGED <<retVars, otherVars>>
  /\ pending_expansion # <<>>
  /\ Head(pending_expansion).depth > max_depth
  /\ pending_expansion' = Tail(pending_expansion)
  /\ UNCHANGED <<graph, entity_ids, max_depth, seen_nodes, seen_edges, nodes,
                 edges, queried, failed_queries, exp_pc>>

\* process_node returns at once for a node already in seen_nodes
ExpandSkipSeen ==
  /\ exp_pc = "loop"
  /\ UNCHANGED <<retVars, otherVars>>
  /\ pending_expansion # <<>>
  /\ Head(pending_expansion).depth <= max_depth
  /\ IsSeen(Head(pending_expansion).vid, seen_nodes)
  /\ pending_expansion' = Tail(pending_expansion)
  /\ UNCHANGED <<graph, entity_ids, max_depth, seen_nodes, seen_edges, nodes,
                 edges, queried, failed_queries, exp_pc>>

\* a bug: a failed query ends the expansion
AfterFailureAbort(pending) == <<>>

\* the queue after a failed query: process_node returns no neighbour and
\* the while loop goes on with the entries that remain
AfterFailure(pending) == Tail(pending)

\* the incident-edge query fails (an exception is raised and caught):
\* the node contributes nothing
ExpandQueryFails ==
  /\ exp_pc = "loop"
  /\ UNCHANGED <<retVars, otherVars>>
  /\ pending_expansion # <<>>
  /\ Head(pending_expansion).depth <= max_depth
  /\ ~IsSeen(Head(pending_expansion).vid, seen_nodes)
  /\ seen_nodes' = seen_nodes \cup {Head(pending_expansion).vid}
  /\ queried' = Append(queried, Head(pending_expansion).vid)
  /\ failed_queries' = Append(failed_queries, Head(pending_expansion).vid)
  /\ pending_expansion' = AfterFailure(pending_expansion)
  /\ UNCHANGED <<graph, entity_ids, max_depth, seen_edges, nodes, edges, exp_pc>>

\* one iteration of the while loop with a successful query
ExpandNode ==
  /\ exp_pc = "loop"
  /\ UNCHANGED <<retVars, otherVars>>
  /\ pending_expansion # <<>>
  /\ LET vid == Head(pending_expansion).vid
         depth == Head(pending_expansion).depth
         seen == seen_nodes \cup {vid}
     IN /\ depth <= max_depth
        /\ ~IsSeen(vid, seen_nodes)
        /\ \E rows \in MatchResults(graph, vid) :
             LET st == ProcessRows(SortedRows(rows), 1, vid, seen,
                         [nodes |-> nodes, edges |-> edges,
                          seen_edges |-> seen_edges, nte |-> <<>>])
             IN /\ seen_nodes' = seen
                /\ queried' = Append(queried, vid)
                /\ failed_queries' = failed_queries
                /\ nodes' = st.nodes
                /\ edges' = st.edges
                /\ seen_edges' = st.seen_edges
                /\ pending_expansion' =
                     Tail(pending_expansion) \o Enqueued(st.nte, depth, max_depth, seen)
  /\ UNCHANGED <<graph, entity_ids, max_depth, exp_pc>>

\* the queue is empty: expand returns GraphContext(nodes, edges)
ExpandReturn ==
  /\ exp_pc = "loop"
  /\ UNCHANGED <<retVars, otherVars>>
  /\ pending_expansion = <<>>
  /\ exp_pc' = "done"
  /\ UNCHANGED <<graph, entity_ids, max_depth, pending_expansion, seen_nodes,
                 seen_edges, nodes, edges, queried, failed_queries>>

\* ------------------------------------------------------ vector search
\* the payloads the build writes: an entity point, a chunk point of a
\* document "doc.txt" and a chunk point of a document named "Alice";
\* "" stands for a key the payload does not carry
HitKinds ==
  { [id |-> "e_a", entity_id |-> "e_a", chunk_id |-> "", is_entity |-> TRUE,
     name |-> "Alice", document_name |-> ""],
    [id |-> "chunk_1", entity_id |-> "", chunk_id |-> "chunk_1", is_entity |-> FALSE,
     name |-> "", document_name |-> "doc.txt"],
    [id |-> "chunk_1", entity_id |-> "", chunk_id |-> "chunk_1", is_entity |-> FALSE,
     name |-> "", document_name |-> "Alice"] }

\* the hits of those kinds with a score of S
HitsWith(S) ==
  {[id |-> k.id, entity_id |-> k.entity_id, chunk_id |-> k.chunk_id,
    is_entity |-> k.is_entity, name |-> k.name,
    document_name |-> k.document_name, score |-> s] : k \in HitKinds, s \in S}

\* the RetrievalResult built from a hit
ResultOf(hit) ==
  [id |-> IF hit.entity_id # "" THEN hit.entity_id
          ELSE IF hit.chunk_id # "" THEN hit.chunk_id ELSE hit.id,
   name |-> IF hit.name # "" THEN hit.name ELSE hit.document_name,
   type |-> IF hit.is_entity THEN "entity" ELSE "chunk",
   score |-> hit.score,
   is_entity |-> hit.is_entity]

\* a bug: a hit scoring exactly the threshold is dropped too
LowScoreInclusive(score, minS) == score <= minS

\* "if score < min_score: continue"
LowScore(score, minS) == score < minS

\* the loop over the backend hits
RECURSIVE SearchLoop(_, _, _, _)
SearchLoop(hs, i, minS, acc) ==
  IF i > Len(hs) THEN acc
  ELSE IF LowScore(hs[i].score, minS) THEN SearchLoop(hs, i + 1, minS, acc)
  ELSE SearchLoop(hs, i + 1, minS,
         [results |-> Append(acc.results, ResultOf(hs[i])),
          sources |-> IF hs[i].document_name # ""
                      THEN Append(acc.sources, hs[i].document_name)
                      ELSE acc.sources])

\* VectorSearchService.search: (results, sources)
VectorSearch(hs, minS) == SearchLoop(hs, 1, minS, [results |-> <<>>, sources |-> <<>>])

\* -------------------------------------------------------- quality gate
RECURSIVE Sum(_)
Sum(s) == IF s = <<>> THEN 0 ELSE Head(s) + Sum(Tail(s))

RECURSIVE MaxOf(_)
MaxOf(s) ==
  IF Len(s) = 1 THEN s[1]
  ELSE LET m == MaxOf(Tail(s)) IN IF s[1] >= m THEN s[1] ELSE m

\* a bug: the mean has to exceed the threshold
ShouldExpandStrictMean(res, st) ==
  IF st = "graph" THEN TRUE
  ELSE IF res = <<>> THEN FALSE
  ELSE LET top_scores == [i \in 1..Len(Prefix(res, GATE_TOP)) |-> res[i].score]
       IN \/ MaxOf(top_scores) >= MIN_MAX_SCORE_FOR_GRAPH
          \/ Sum(top_scores) > MIN_AVG_SCORE_FOR_GRAPH * Len(top_scores)

\* RetrievalService._should_expand_graph
ShouldExpandGraph(res, st) ==
  IF st = "graph" THEN TRUE
  ELSE IF res = <<>> THEN FALSE
  ELSE LET top_scores == [i \in 1..Len(Prefix(res, GATE_TOP)) |-> res[i].score]
       IN \/ MaxOf(top_scores) >= MIN_MAX_SCORE_FOR_GRAPH
          \/ Sum(top_scores) >= MIN_AVG_SCORE_FOR_GRAPH * Len(top_scores)

\* --------------------------------------------------------- graph search
\* what graph search can find: the LLM names any entities, the substring
\* match returns each vertex once
GraphFound ==
  {f \in SeqsUpTo(EntityVids, Cardinality(EntityVids)) :
     \A i, j \in 1..Len(f) : i # j => f[i] # f[j]}

\* the results of graph search, scored 1.0 - 0.05 * rank
GraphSearchResults(found) ==
  [i \in 1..Len(found) |->
     [id |-> found[i], name |-> NameOf[found[i]], type |-> "entity",
      score |-> 100 - 5 * (i - 1), is_entity |-> TRUE]]

\* ------------------------------------------------------ seed collection
StartsWith(s, prefix) ==
  Len(s) >= Len(prefix) /\ SubSeq(s, 1, Len(prefix)) = prefix

EndsWith(s, suffix) ==
  Len(s) >= Len(suffix) /\ SubSeq(s, Len(s) - Len(suffix) + 1, Len(s)) = suffix

HasEPrefix(id) == StartsWith(id, "e_")
HasChunkPrefix(id) == StartsWith(id, "chunk_")
EndsWithTxt(name) == EndsWith(name, ".txt")

Ids(res) == [i \in 1..Len(res) |-> res[i].id]

\* (a) the results flagged as entities, or whose id starts with "e_"
DirectSeeds(res) ==
  Ids(SelectSeq(res, LAMBDA r : r.is_entity \/ HasEPrefix(r.id)))

ChunkIds(res) == SelectSeq(Ids(res), HasChunkPrefix)

\* append the ids of rows that acc does not hold yet
RECURSIVE AppendNew(_, _)
AppendNew(acc, rows) ==
  IF rows = <<>> THEN acc
  ELSE AppendNew(IF Head(rows) \in Range(acc) THEN acc ELSE Append(acc, Head(rows)),
                 Tail(rows))

\* the answers the store can give to the reverse extracted_from lookup of a
\* chunk: nothing (the query failed), or the entities at the other end of
\* the chunk's extracted_from edges, in any order
ChunkLookupAnswers(g, chunk_id) ==
  LET ents == {e.src : e \in {x \in g : x.type = "extracted_from" /\ x.dst = chunk_id}}
  IN {<<>>} \cup Perms(ents)

\* the answers to the exact-name lookup: vertices tagged person, entity or
\* organization carrying that name, among those the space held before any
\* build and those the builds have written
NameLookupAnswers(g, name) ==
  LET vs == {v \in Vids : TagOf[v] \in {"person", "entity", "organization"}
                          /\ NameOf[v] = name}
              \cup {v.vid : v \in {x \in vertices :
                                     /\ x.tag \in {"person", "entity", "organization"}
                                     /\ x.name = name}}
  IN {<<>>} \cup Perms(vs)

\* one answer per query, given the possible answers of each query in turn
AnswerChoices(answerSets) ==
  {f \in [1..Len(answerSets) -> UNION Range(answerSets)] :
     \A i \in 1..Len(answerSets) : f[i] \in answerSets[i]}

\* _find_entities_from_chunks, given the store's answers
RECURSIVE FromChunks(_, _, _)
FromChunks(ans, i, acc) ==
  IF i > Len(ans) THEN acc ELSE FromChunks(ans, i + 1, AppendNew(acc, ans[i]))

\* the name-based fallback, given the store's answers
RECURSIVE Concat(_, _)
Concat(ans, i) == IF i > Len(ans) THEN <<>> ELSE ans[i] \o Concat(ans, i + 1)

\* the names looked up: of the first 5 results, those with a name that does
\* not end in ".txt"
LookupNames(res) ==
  LET top == Prefix(res, NAME_LOOKUP_LIMIT)
      named == SelectSeq(top, LAMBDA r : r.name # "" /\ ~EndsWithTxt(r.name))
  IN [i \in 1..Len(named) |-> named[i].name]

\* the seed lists the collection can end with
SeedCandidates(res, g) ==
  LET direct == DirectSeeds(res)
      lookup_ids == Prefix(ChunkIds(res), CHUNK_LOOKUP_LIMIT)
      names == LookupNames(res)
      withChunks ==
        IF Len(direct) < DIRECT_SEEDS_ENOUGH
        THEN {direct \o FromChunks(a, 1, <<>>) :
                a \in AnswerChoices([i \in 1..Len(lookup_ids) |->
                                       ChunkLookupAnswers(g, lookup_ids[i])])}
        ELSE {direct}
      byName ==
        {Concat(a, 1) :
           a \in AnswerChoices([i \in 1..Len(names) |-> NameLookupAnswers(g, names[i])])}
  IN (withChunks \ {<<>>}) \cup (IF <<>> \in withChunks THEN byName ELSE {})

\* the outcomes of the seed collection of retrieve: the seeds, the lookup
\* queries issued on the way, and whether expand is invoked; the collection
\* raises when the graph service of the lookups cannot be obtained
SeedOutcomes(res, g) ==
  LET direct == DirectSeeds(res)
      lookup_ids == Prefix(ChunkIds(res), CHUNK_LOOKUP_LIMIT)
      names == LookupNames(res)
      chunkLog == [i \in 1..Len(lookup_ids) |-> [kind |-> "chunk", key |-> lookup_ids[i]]]
      nameLog == [i \in 1..Len(names) |-> [kind |-> "name", key |-> names[i]]]
      withChunks ==
        IF Len(direct) < DIRECT_SEEDS_ENOUGH
        THEN {[seeds |-> direct \o FromChunks(a, 1, <<>>), lookups |-> chunkLog] :
                a \in AnswerChoices([i \in 1..Len(lookup_ids) |->
                                       ChunkLookupAnswers(g, lookup_ids[i])])}
        ELSE {[seeds |-> direct, lookups |-> <<>>]}
      byName(w) ==
        {[seeds |-> Concat(a, 1), lookups |-> w.lookups \o nameLog] :
           a \in AnswerChoices([i \in 1..Len(names) |-> NameLookupAnswers(g, names[i])])}
      final == UNION {IF w.seeds = <<>> THEN byName(w) ELSE {w} : w \in withChunks}
  IN {[raised |-> FALSE, seeds |-> f.seeds, lookups |-> f.lookups,
       expand |-> f.seeds # <<>>] : f \in final}
       \cup (IF Len(direct) < DIRECT_SEEDS_ENOUGH
             THEN {[raised |-> TRUE, seeds |-> direct, lookups |-> <<>>,
                    expand |-> FALSE]}
             ELSE {})

\* a bug: the caught exception leaves no trace in response.errors
Swallowed(errs, msg) == errs

\* response.errors.append(...)
Recorded(errs, msg) == Append(errs, msg)

\* a bug: success only without errors
SuccessStrict(errs, res) == Len(errs) = 0

\* len(response.errors) == 0 or len(response.results) > 0
SuccessOf(errs, res) == Len(errs) = 0 \/ Len(res) > 0

\* a bug: graph mode keeps the caller's expand_graph
KeepExpandGraph(eg) == eg

\* expand_graph = True  # Force graph expansion for graph mode
ForceExpandGraph(eg) == TRUE

\* a bug: the gate decides alone
GateOnly(eg, res, st) == ShouldExpandGraph(res, st)

\* should_expand_graph = expand_graph and self._should_expand_graph(...)
ShouldExpandStep(eg, res, st) == eg /\ ShouldExpandGraph(res, st)

\* ------------------------------------------------------------ retrieve
\* step 1 for hybrid and vector: vector search succeeds
RetrieveVectorSearch ==
  /\ pc = "search"
  /\ search_type \in {"hybrid", "vector"}
  /\ results' = results \o VectorSearch(hits, min_score).results
  /\ sources' = sources \o VectorSearch(hits, min_score).sources
  /\ trace' = Append(trace, "vector_search")
  /\ pc' = "expansion"
  /\ UNCHANGED <<search_type, caller_expand, expand_graph, use_llm, graph_depth,
                 hits, min_score, errors, graph_context, answer, success,
                 should_expand, failed>>
  /\ UNCHANGED <<expVars, otherVars>>

\* step 1 for hybrid and vector: vector search raises
RetrieveVectorSearchFails ==
  /\ pc = "search"
  /\ search_type \in {"hybrid", "vector"}
  /\ errors' = Recorded(errors, "Vector search error")
  /\ failed' = Append(failed, "vector_search")
  /\ trace' = Append(trace, "vector_search")
  /\ pc' = "expansion"
  /\ UNCHANGED <<search_type, caller_expand, expand_graph, use_llm, graph_depth,
                 hits, min_score, results, sources, graph_context, answer, success,
                 should_expand>>
  /\ UNCHANGED <<expVars, otherVars>>

\* step 1 for graph: graph search succeeds and forces expansion
RetrieveGraphSearch ==
  /\ pc = "search"
  /\ search_type = "graph"
  /\ \E found \in GraphFound : results' = results \o GraphSearchResults(found)
  /\ expand_graph' = ForceExpandGraph(expand_graph)
  /\ trace' = Append(trace, "graph_search")
  /\ pc' = "expansion"
  /\ UNCHANGED <<search_type, caller_expand, use_llm, graph_depth, hits, min_score,
                 sources, errors, graph_context, answer, success, should_expand,
                 failed>>
  /\ UNCHANGED <<expVars, otherVars>>

\* step 1 for graph: graph search raises (the LLM call failed)
RetrieveGraphSearchFails ==
  /\ pc = "search"
  /\ search_type = "graph"
  /\ errors' = Recorded(errors, "Graph search error")
  /\ failed' = Append(failed, "graph_search")
  /\ trace' = Append(trace, "graph_search")
  /\ pc' = "expansion"
  /\ UNCHANGED <<search_type, caller_expand, expand_graph, use_llm, graph_depth,
                 hits, min_score, results, sources, graph_context, answer, success,
                 should_expand>>
  /\ UNCHANGED <<expVars, otherVars>>

\* step 2, should_expand_graph false: expansion is skipped
RetrieveSkipExpansion ==
  /\ pc = "expansion"
  /\ ~ShouldExpandStep(expand_graph, results, search_type)
  /\ should_expand' = FALSE
  /\ pc' = "answer"
  /\ UNCHANGED <<search_type, caller_expand, expand_graph, use_llm, graph_depth,
                 hits, min_score, results, sources, errors, graph_context, answer,
                 success, failed, trace>>
  /\ UNCHANGED <<expVars, otherVars>>

\* step 2: the seed collection raises (with fewer than 3 direct seeds the
\* expansion service's graph connection is opened outside any inner try)
RetrieveExpansionFails ==
  /\ pc = "expansion"
  /\ ShouldExpandStep(expand_graph, results, search_type)
  /\ Len(DirectSeeds(results)) < DIRECT_SEEDS_ENOUGH
  /\ should_expand' = TRUE
  /\ errors' = Recorded(errors, "Graph expansion error")
  /\ failed' = Append(failed, "expansion")
  /\ trace' = Append(trace, "expansion")
  /\ pc' = "answer"
  /\ UNCHANGED <<search_type, caller_expand, expand_graph, use_llm, graph_depth,
                 hits, min_score, results, sources, graph_context, answer, success>>
  /\ UNCHANGED <<expVars, otherVars>>

\* step 2: no seed was found, expand is not called
RetrieveNoSeeds ==
  /\ pc = "expansion"
  /\ ShouldExpandStep(expand_graph, results, search_type)
  /\ <<>> \in SeedCandidates(results, graph)
  /\ should_expand' = TRUE
  /\ trace' = Append(trace, "expansion")
  /\ pc' = "answer"
  /\ UNCHANGED <<search_type, caller_expand, expand_graph, use_llm, graph_depth,
                 hits, min_score, results, sources, errors, graph_context, answer,
                 success, failed>>
  /\ UNCHANGED <<expVars, otherVars>>

\* step 2: seeds were found, expand is called with them
RetrieveExpand ==
  /\ pc = "expansion"
  /\ ShouldExpandStep(expand_graph, results, search_type)
  /\ \E ids \in SeedCandidates(results, graph) \ {<<>>} : ExpandStart(ids, graph_depth)
  /\ should_expand' = TRUE
  /\ trace' = Append(Append(trace, "expansion"), "expand")
  /\ pc' = "expanding"
  /\ UNCHANGED <<search_type, caller_expand, expand_graph, use_llm, graph_depth,
                 hits, min_score, results, sources, errors, graph_context, answer,
                 success, failed>>
  /\ UNCHANGED <<graph, otherVars>>

\* step 2: expand returned, its GraphContext goes into the response
RetrieveExpanded ==
  /\ pc = "expanding"
  /\ exp_pc = "done"
  /\ graph_context' = [present |-> TRUE, nodes |-> nodes, edges |-> edges]
  /\ pc' = "answer"
  /\ UNCHANGED <<search_type, caller_expand, expand_graph, use_llm, graph_depth,
                 hits, min_score, results, sources, errors, answer, success,
                 should_expand, failed, trace>>
  /\ UNCHANGED <<expVars, otherVars>>

\* a bug: the LLM is called whenever use_llm is set
WantsAnswerAlways == use_llm

\* does step 3 call the LLM
WantsAnswer == use_llm /\ (results # <<>> \/ graph_context.present)

\* step 3 skipped, and the response returned
RetrieveNoAnswer ==
  /\ pc = "answer"
  /\ ~WantsAnswer
  /\ success' = SuccessOf(errors, results)
  /\ pc' = "done"
  /\ UNCHANGED <<search_type, caller_expand, expand_graph, use_llm, graph_depth,
                 hits, min_score, results, sources, errors, graph_context, answer,
                 should_expand, failed, trace>>
  /\ UNCHANGED <<expVars, otherVars>>

\* step 3: the answer is generated, and the response returned
RetrieveAnswer ==
  /\ pc = "answer"
  /\ WantsAnswer
  /\ answer' = "generated"
  /\ trace' = Append(trace, "llm")
  /\ success' = SuccessOf(errors, results)
  /\ pc' = "done"
  /\ UNCHANGED <<search_type, caller_expand, expand_graph, use_llm, graph_depth,
                 hits, min_score, results, sources, errors, graph_context,
                 should_expand, failed>>
  /\ UNCHANGED <<expVars, otherVars>>

\* step 3: answer generation raises, and the response is returned
RetrieveAnswerFails ==
  /\ pc = "answer"
  /\ WantsAnswer
  /\ errors' = Recorded(errors, "LLM error")
  /\ failed' = Append(failed, "llm")
  /\ trace' = Append(trace, "llm")
  /\ success' = SuccessOf(errors', results)
  /\ pc' = "done"
  /\ UNCHANGED <<search_type, caller_expand, expand_graph, use_llm, graph_depth,
                 hits, min_score, results, sources, graph_context, answer,
                 should_expand>>
  /\ UNCHANGED <<expVars, otherVars>>

\* ------------------------------------------------------------- strings
\* strings are sequences of characters; Ch(s, i) is the one-character
\* string at position i
Ch(s, i) == SubSeq(s, i, i)

UpperLetters == "ABCDEFGHIJKLMNOPQRSTUVWXYZ"
LowerLetters == "abcdefghijklmnopqrstuvwxyz"

\* the lower-case letter of every upper-case letter
LowerOf ==
  [c \in {Ch(UpperLetters, i) : i \in 1..Len(UpperLetters)} |->
     Ch(LowerLetters, CHOOSE i \in 1..Len(UpperLetters) : Ch(UpperLetters, i) = c)]

LowerChar(c) == IF c \in DOMAIN LowerOf THEN LowerOf[c] ELSE c

\* str.lower()
RECURSIVE Lower(_)
Lower(s) == IF s = "" THEN "" ELSE LowerChar(Ch(s, 1)) \o Lower(Tail(s))

\* ------------------------------------------- EntityExtractor.merge_results
\* f"{entity.name.lower()}:{entity.type.lower()}"
EntityKey(entity) == Lower(entity.name) \o ":" \o Lower(entity.type)

\* a bug: one key for both directions of a relationship
RelKeyUndirected(rel) ==
  LET s == Lower(rel.source)
      t == Lower(rel.target)
      ty == Lower(rel.relation_type)
  IN CHOOSE k \in {s \o "-" \o ty \o "-" \o t, t \o "-" \o ty \o "-" \o s} : TRUE

\* f"{rel.source.lower()}-{rel.relation_type.lower()}-{rel.target.lower()}"
RelKey(rel) ==
  Lower(rel.source) \o "-" \o Lower(rel.relation_type) \o "-" \o Lower(rel.target)

\* a bug: the later description replaces the kept one
ReplacedDescription(existing, incoming) ==
  IF incoming # "" /\ incoming # existing THEN incoming ELSE existing

\* the description of the kept entity after a duplicate came in
MergedDescription(existing, incoming) ==
  IF incoming # "" /\ incoming # existing
  THEN existing \o "; " \o incoming
  ELSE existing

\* one pass of "for entity in result.entities"; entity_map holds the kept
\* entities in insertion order (the values of the dict)
RECURSIVE FoldEntities(_, _, _)
FoldEntities(ents, i, entity_map) ==
  IF i > Len(ents) THEN entity_map
  ELSE
    LET entity == ents[i]
        key == EntityKey(entity)
        at == {k \in 1..Len(entity_map) : EntityKey(entity_map[k]) = key}
    IN FoldEntities(ents, i + 1,
         IF at = {} THEN Append(entity_map, entity)
         ELSE LET k == CHOOSE k \in at : TRUE
              IN [entity_map EXCEPT ![k].description =
                    MergedDescription(@, entity.description)])

\* "for result in results": the entities folded, the relationships extended
RECURSIVE FoldResults(_, _, _)
FoldResults(res, i, acc) ==
  IF i > Len(res) THEN acc
  ELSE FoldResults(res, i + 1,
         [entity_map |-> FoldEntities(res[i].entities, 1, acc.entity_map),
          relationships |-> acc.relationships \o res[i].relationships])

\* the deduplication loop: the first relationship of every key is kept
RECURSIVE UniqueRelationships(_, _, _, _)
UniqueRelationships(rels, i, rel_set, unique) ==
  IF i > Len(rels) THEN unique
  ELSE IF RelKey(rels[i]) \in rel_set
       THEN UniqueRelationships(rels, i + 1, rel_set, unique)
       ELSE UniqueRelationships(rels, i + 1, rel_set \cup {RelKey(rels[i])},
                                Append(unique, rels[i]))

\* merge_results(results)
MergeResults(res) ==
  LET folded == FoldResults(res, 1, [entity_map |-> <<>>, relationships |-> <<>>])
  IN [entities |-> folded.entity_map,
      relationships |-> UniqueRelationships(folded.relationships, 1, {}, <<>>)]

\* ------------------------------------------------------------ JSON repair
\* \s of the regular expressions and str.rstrip()
IsSpace(c) == c \in {" ", "\n", "\t", "\r"}

\* does the text hold the pattern p at position i
At(t, i, p) == i + Len(p) - 1 <= Len(t) /\ SubSeq(t, i, i + Len(p) - 1) = p

\* the first position from i on that holds no white space
RECURSIVE SkipSpace(_, _)
SkipSpace(t, i) ==
  IF i <= Len(t) /\ IsSpace(Ch(t, i)) THEN SkipSpace(t, i + 1) ELSE i

\* the first position from i on that holds a newline
RECURSIVE SkipLine(_, _)
SkipLine(t, i) ==
  IF i <= Len(t) /\ Ch(t, i) # "\n" THEN SkipLine(t, i + 1) ELSE i

\* the code-fence marker; "~" stands for the backquote, which a string of
\* this module cannot hold
FENCE == "~~~"

\* re.sub of the pattern FENCE (?:json)? \s* by "", from position i on
RECURSIVE StripFences(_, _)
StripFences(t, i) ==
  IF i > Len(t) THEN ""
  ELSE IF At(t, i, FENCE)
       THEN StripFences(t, SkipSpace(t, IF At(t, i + 3, "json") THEN i + 7 ELSE i + 3))
       ELSE Ch(t, i) \o StripFences(t, i + 1)

\* re.sub(r"//[^\n]*", "", text), from position i on
RECURSIVE StripComments(_, _)
StripComments(t, i) ==
  IF i > Len(t) THEN ""
  ELSE IF At(t, i, "//")
       THEN StripComments(t, SkipLine(t, i + 2))
       ELSE Ch(t, i) \o StripComments(t, i + 1)

\* re.sub(r",\s*([}\]])", r"\1", text), from position i on
RECURSIVE StripTrailingCommas(_, _)
StripTrailingCommas(t, i) ==
  IF i > Len(t) THEN ""
  ELSE LET j == SkipSpace(t, i + 1)
       IN IF Ch(t, i) = "," /\ j <= Len(t) /\ Ch(t, j) \in {"}", "]"}
          THEN Ch(t, j) \o StripTrailingCommas(t, j + 1)
          ELSE Ch(t, i) \o StripTrailingCommas(t, i + 1)

\* the text after the three substitutions
Cleaned(s) ==
  StripTrailingCommas(StripComments(StripFences(s, 1), 1), 1)

\* text.count(c) for the characters of the set C
RECURSIVE CountOf(_, _)
CountOf(t, C) ==
  IF t = "" THEN 0
  ELSE (IF Head(t) \in C THEN 1 ELSE 0) + CountOf(Tail(t), C)

\* "for ch in text" from position i on; st carries stack, in_string, escape
RECURSIVE Scan(_, _, _)
Scan(t, i, st) ==
  IF i > Len(t) THEN st
  ELSE
    LET ch == Ch(t, i)
        top == IF st.stack = <<>> THEN "" ELSE st.stack[Len(st.stack)]
        pop == SubSeq(st.stack, 1, Len(st.stack) - 1)
    IN Scan(t, i + 1,
         IF st.escape THEN [st EXCEPT !.escape = FALSE]
         ELSE IF ch = "\\" THEN [st EXCEPT !.escape = TRUE]
         ELSE IF ch = "\"" THEN [st EXCEPT !.in_string = ~@]
         ELSE IF st.in_string THEN st
         ELSE IF ch \in {"{", "["} THEN [st EXCEPT !.stack = Append(@, ch)]
         ELSE IF ch = "}" /\ top = "{" THEN [st EXCEPT !.stack = pop]
         ELSE IF ch = "]" /\ top = "[" THEN [st EXCEPT !.stack = pop]
         ELSE st)

\* the scan of the whole text
ScanOf(t) == Scan(t, 1, [stack |-> <<>>, in_string |-> FALSE, escape |-> FALSE])

\* "for opener in reversed(stack)": the closers of the open containers
RECURSIVE Closers(_)
Closers(stack) ==
  IF stack = <<>> THEN ""
  ELSE (IF stack[Len(stack)] = "[" THEN "]" ELSE "}")
         \o Closers(SubSeq(stack, 1, Len(stack) - 1))

\* text.rstrip()
RECURSIVE RStrip(_)
RStrip(t) ==
  IF t # "" /\ IsSpace(Ch(t, Len(t))) THEN RStrip(SubSeq(t, 1, Len(t) - 1)) ELSE t

\* text.endswith('"')
EndsWithQuote(t) == t # "" /\ Ch(t, Len(t)) = "\""

\* _fix_json(text)
FixJson(s) ==
  LET t == Cleaned(s)
      opens == CountOf(t, {"{", "["})
      closes == CountOf(t, {"}", "]"})
      scan == ScanOf(t)
      closed == t \o Closers(scan.stack)
      stripped == RStrip(closed)
      quoted == IF EndsWithQuote(stripped) THEN stripped ELSE stripped \o "\""
  IN IF opens > closes
     THEN IF scan.in_string THEN quoted \o Closers(scan.stack) ELSE closed
     ELSE t

\* ----------------------------------------------------------- build_context
CONTEXT_RESULTS == 10
CONTEXT_NODES == 20
CONTEXT_EDGES == 40

\* priority_types
CONTEXT_PRIORITY_TYPES ==
  {"works_for", "located_in", "founded", "belongs_to", "related_to"}

\* str.replace("_", " ")
RECURSIVE ReplaceUnderscore(_)
ReplaceUnderscore(s) ==
  IF s = "" THEN ""
  ELSE (IF Head(s) = "_" THEN " " ELSE Head(s)) \o ReplaceUnderscore(Tail(s))

\* the parts of the retrieved results
RECURSIVE ResultParts(_, _)
ResultParts(res, i) ==
  IF i > Len(res) THEN <<>>
  ELSE <<[kind |-> "result", index |-> i, name |-> res[i].name,
          type |-> res[i].type, score |-> res[i].score]>>
         \o (IF res[i].text # "" THEN <<[kind |-> "text", text |-> res[i].text]>>
             ELSE <<>>)
         \o ResultParts(res, i + 1)

\* the part of a node
NodePart(node) ==
  [kind |-> "node", name |-> node.name, type |-> node.type,
   description |-> node.description]

\* node_names.get(id, id)
NodeName(ns, id) ==
  IF \E k \in 1..Len(ns) : ns[k].id = id
  THEN ns[CHOOSE k \in 1..Len(ns) :
            ns[k].id = id /\ \A j \in (k + 1)..Len(ns) : ns[j].id # id].name
  ELSE id

\* the part of an edge
EdgePart(edge, ns) ==
  [kind |-> "edge",
   src |-> IF edge.source_name # "" THEN edge.source_name ELSE NodeName(ns, edge.source),
   label |-> ReplaceUnderscore(edge.type),
   tgt |-> IF edge.target_name # "" THEN edge.target_name ELSE NodeName(ns, edge.target)]

\* a bug: the edges rendered in the order of the GraphContext
UnsortedEdges(es) == es

\* sorted_edges = priority_edges + other_edges
SortedEdges(es) ==
  SelectSeq(es, LAMBDA e : e.type \in CONTEXT_PRIORITY_TYPES)
    \o SelectSeq(es, LAMBDA e : e.type \notin CONTEXT_PRIORITY_TYPES)

Header(title) == [kind |-> "header", title |-> title]

\* build_context(results, graph_context): the list parts
BuildContext(res, gc) ==
  (IF res # <<>>
   THEN <<Header("Retrieved Information")>> \o ResultParts(Prefix(res, CONTEXT_RESULTS), 1)
   ELSE <<>>)
  \o (IF gc.present /\ gc.nodes # <<>>
      THEN <<Header("Related Entities")>>
             \o [k \in 1..Len(Prefix(gc.nodes, CONTEXT_NODES)) |-> NodePart(gc.nodes[k])]
      ELSE <<>>)
  \o (IF gc.present /\ gc.edges # <<>>
      THEN <<Header("Relationships"), Header("These relationships")>>
             \o [k \in 1..Len(Prefix(SortedEdges(gc.edges), CONTEXT_EDGES)) |->
                   EdgePart(SortedEdges(gc.edges)[k], gc.nodes)]
      ELSE <<>>)

\* ------------------------------------------------ idle values of the rest
\* no single call running
CallIdle ==
  /\ extractions = <<>>
  /\ raw_json = ""
  /\ fixed = ""
  /\ context = <<>>
  /\ seed_out = [raised |-> FALSE, seeds |-> <<>>, lookups |-> <<>>, expand |-> FALSE]
  /\ call_pc = "idle"

NoMerged == [entities |-> <<>>, relationships |-> <<>>]

NoBuildResult ==
  [returned |-> FALSE, success |-> FALSE, document_id |-> "", chunks_count |-> 0,
   entities_count |-> 0, relationships_count |-> 0]

NoFirstRun == [ids |-> {}, extracted |-> <<>>, vertices |-> {}, vectors |-> {}]

\* the locals of build_from_text before it runs
BuildLocalsFresh ==
  /\ all_entities = <<>>
  /\ all_relationships = <<>>
  /\ entity_vid_map = <<>>
  /\ entities_created = 0
  /\ relationships_created = 0
  /\ build_errors = <<>>
  /\ build_result = NoBuildResult
  /\ build_log = <<>>
  /\ doc_id = ""
  /\ chunk_ids = <<>>
  /\ build_i = 0

\* no build running, the stores empty
BuildIdle ==
  /\ build_pc = "idle"
  /\ source_name = ""
  /\ text = ""
  /\ chunks = <<>>
  /\ llm_plan = <<>>
  /\ extractor_ok = TRUE
  /\ run = 0
  /\ last_run = 0
  /\ timestamp = 0
  /\ merged = NoMerged
  /\ BuildLocalsFresh
  /\ vertices = {}
  /\ vectors = {}
  /\ faults_left = 0
  /\ first_run = NoFirstRun

\* the request threads
Threads == {"r1", "r2"}

NoService == [made |-> FALSE, chunk_size |-> 0, chunk_overlap |-> 0, builder |-> FALSE]

IdleRequest == [pc |-> "idle", svc |-> 0, gs |-> 0, self |-> 0, pool |-> 0, ret |-> ""]

\* a process that has served no request
SvcIdle ==
  /\ build_service = NoService
  /\ served = <<>>
  /\ retrieval_service = 0
  /\ svc_graph_service = <<>>
  /\ graph_services = <<>>
  /\ pools = <<>>
  /\ req = [t \in Threads |-> IdleRequest]

OtherIdle == CallIdle /\ BuildIdle /\ SvcIdle

\* ------------------------------------------------ EntityExtractor.extract
\* text.strip() is empty
RECURSIVE IsBlank(_)
IsBlank(s) == s = "" \/ (Ch(s, 1) \in {" ", "\n", "\t"} /\ IsBlank(Tail(s)))

EmptyExtraction == [raised |-> FALSE, entities |-> <<>>, relationships |-> <<>>]

\* the Entity objects built from the items of data["entities"]; an item
\* that fails validation is skipped, the type is lower-cased
RECURSIVE ParsedEntities(_)
ParsedEntities(items) ==
  IF items = <<>> THEN <<>>
  ELSE (IF Head(items).ok
        THEN <<[name |-> Head(items).name, type |-> Lower(Head(items).type),
                description |-> Head(items).description]>>
        ELSE <<>>) \o ParsedEntities(Tail(items))

\* the Relationship objects built from the items of data["relationships"]
RECURSIVE ParsedRelationships(_)
ParsedRelationships(items) ==
  IF items = <<>> THEN <<>>
  ELSE (IF Head(items).ok
        THEN <<[source |-> Head(items).source, target |-> Head(items).target,
                relation_type |-> Lower(Head(items).relation_type)]>>
        ELSE <<>>) \o ParsedRelationships(Tail(items))

\* _parse_response: no JSON object in the response, or JSON that does not
\* load even after _fix_json, gives an empty result; data["entities"] that
\* cannot be iterated raises
ParseResponse(resp) ==
  IF resp.json = "none" THEN EmptyExtraction
  ELSE IF resp.json = "broken" THEN EmptyExtraction
  ELSE IF ~resp.entities_ok
       THEN [raised |-> TRUE, entities |-> <<>>, relationships |-> <<>>]
       ELSE [raised |-> FALSE, entities |-> ParsedEntities(resp.entities),
             relationships |-> ParsedRelationships(resp.relationships)]

\* a bug: the response parsed outside the try block
ExtractUncaught(txt, resp) ==
  IF IsBlank(txt) THEN EmptyExtraction
  ELSE IF resp.raises THEN EmptyExtraction
  ELSE ParseResponse(resp)

\* extract(text, chunk_id), given the answer of the LLM
Extract(txt, resp) ==
  IF IsBlank(txt) THEN EmptyExtraction
  ELSE IF resp.raises THEN EmptyExtraction
  ELSE IF ParseResponse(resp).raised THEN EmptyExtraction
  ELSE ParseResponse(resp)

\* the LLM call failed, or its answer holds no usable JSON object
Failing(resp) ==
  resp.raises \/ resp.json \in {"none", "broken"} \/ ~resp.entities_ok

\* --------------------------------------------------- KnowledgeBuilder ids
DOC_ID_TEXT == 100
CHUNK_ID_TEXT == 50

Digit(i) == Ch("0123456789", i + 1)

\* hashlib.md5(content.encode()).hexdigest()[:16]: the digest stands for
\* its content, one digest per content
Md5Hex16(content) == "<" \o content \o ">"

\* _generate_id(content, prefix)
GenerateId(content, prefix) == prefix \o Md5Hex16(content)

\* doc_id, computed from what the build has at hand at that point
DocumentId(source, txt, ts) ==
  GenerateId(source \o ":" \o Prefix(txt, DOC_ID_TEXT), "doc_")

\* chunk_id of the chunk of index i
ChunkId(doc, i, chunk, ts) ==
  GenerateId(doc \o ":" \o Digit(i) \o ":" \o Prefix(chunk, CHUNK_ID_TEXT), "chunk_")

\* a bug: the creation time enters the id
EntityVidTimed(entity, ts) ==
  GenerateId(entity.name \o ":" \o entity.type \o ":" \o Digit(ts), "e_")

\* entity_vid
EntityVid(entity, ts) == GenerateId(entity.name \o ":" \o entity.type, "e_")

\* --------------------------------------------------------- type coercion
ENTITY_TAGS == {"person", "organization", "location", "event", "concept"}

RELATION_EDGE_TYPES ==
  {"related_to", "belongs_to", "located_in", "works_for", "created_by",
   "part_of", "causes", "uses", "mentions", "similar_to"}

\* a bug: the extracted type used as the tag
TagNameRaw(type) == type

\* tag_name
TagName(type) == IF type \in ENTITY_TAGS THEN type ELSE "entity"

\* a bug: the relation type written as extracted
EdgeTypeRaw(relation_type) == relation_type

\* edge_type
EdgeType(relation_type) ==
  IF relation_type \in RELATION_EDGE_TYPES THEN relation_type ELSE "related_to"

\* ------------------------------------------------------------ the stores
\* dict assignment and dict.get (None is "")
MapPut(m, k, v) == [x \in DOMAIN m \cup {k} |-> IF x = k THEN v ELSE m[x]]
MapGet(m, k) == IF k \in DOMAIN m THEN m[k] ELSE ""

\* INSERT VERTEX tag(...) VALUES vid: the tag's properties of the vertex
\* are set, whether or not the vertex carried the tag before
InsertVertex(vs, tag, vid, name, ts) ==
  {v \in vs : ~(v.vid = vid /\ v.tag = tag)}
    \cup {[vid |-> vid, tag |-> tag, name |-> name, created_at |-> ts]}

\* INSERT EDGE type(...) VALUES src->dst@0
InsertEdge(g, type, src, dst) == g \cup {[src |-> src, type |-> type, dst |-> dst]}

\* _string_to_uuid: the UUID made of the MD5 digest of the id
StringToUuid(id) == "uuid" \o Md5Hex16(id)

\* _convert_id: no id of the build has the format of a UUID
ConvertId(id) == StringToUuid(id)

\* the PointStruct of a vector id and its payload
PointOf(id, payload) ==
  [id |-> ConvertId(id), original_id |-> id, entity_id |-> payload.entity_id,
   chunk_id |-> payload.chunk_id, name |-> payload.name,
   document_name |-> payload.document_name, is_entity |-> payload.is_entity]

\* client.upsert(points): a point replaces the point of the same id
RECURSIVE Upsert(_, _)
Upsert(vecs, points) ==
  IF points = <<>> THEN vecs
  ELSE Upsert({p \in vecs : p.id # Head(points).id} \cup {Head(points)}, Tail(points))

\* the outcomes of a write to the graph store: done, an exception, or a
\* result with success = False; a fault needs the environment's budget
GraphOutcomes(f) == IF f > 0 THEN {"ok", "raises", "unsuccessful"} ELSE {"ok"}

\* the outcomes of the embedding and upsert of a batch
VectorOutcomes(f) == IF f > 0 THEN {"ok", "raises"} ELSE {"ok"}

Cost(outcome) == IF outcome = "ok" THEN 0 ELSE 1

\* an entry of the log
LogEntry(op, what, id, to, tag, outcome) ==
  [op |-> op, what |-> what, id |-> id, to |-> to, tag |-> tag, outcome |-> outcome]

\* errors.append(msg) when the write raised
ErrorsAfter(errs, outcome, msg) == IF outcome = "raises" THEN Append(errs, msg) ELSE errs

\* "entities_created += 1" runs unless insert_vertex raised
CountAfter(n, outcome) == IF outcome = "raises" THEN n ELSE n + 1

\* ------------------------------------------- KnowledgeBuilder.build_from_text
\* the text has no chunk: the build returns at once
BuildEmpty ==
  /\ build_pc = "start"
  /\ chunks = <<>>
  /\ timestamp' = run
  /\ doc_id' = DocumentId(source_name, text, run)
  /\ build_errors' = <<"No text content to process">>
  /\ build_result' = [returned |-> TRUE, success |-> FALSE, document_id |-> doc_id',
                      chunks_count |-> 0, entities_count |-> 0,
                      relationships_count |-> 0]
  /\ build_pc' = "done"
  /\ UNCHANGED <<retVars, expVars, callVars, svcVars, buildInput, run, merged, vertices,
                 vectors, faults_left, first_run>>
  /\ UNCHANGED <<chunk_ids, build_i, all_entities, all_relationships,
                 entity_vid_map, entities_created, relationships_created, build_log>>

\* doc_id, timestamp, the chunks, and the document vertex
BuildStart ==
  /\ build_pc = "start"
  /\ chunks # <<>>
  /\ timestamp' = run
  /\ doc_id' = DocumentId(source_name, text, run)
  /\ \E o \in GraphOutcomes(faults_left) :
       /\ vertices' = IF o = "ok"
                      THEN InsertVertex(vertices, "document", doc_id', source_name, run)
                      ELSE vertices
       /\ build_errors' = ErrorsAfter(<<>>, o, "Document vertex creation failed")
       /\ build_log' = <<LogEntry("vertex", "document", doc_id', "", "document", o)>>
       /\ faults_left' = faults_left - Cost(o)
  /\ build_i' = 1
  /\ build_pc' = "chunks"
  /\ UNCHANGED <<retVars, expVars, callVars, svcVars, buildInput, run, merged, vectors,
                 first_run>>
  /\ UNCHANGED <<chunk_ids, all_entities, all_relationships, entity_vid_map,
                 entities_created, relationships_created, build_result>>

\* one iteration of "for i, chunk in enumerate(chunks)": the chunk vertex,
\* the contains edge, and the extraction
BuildChunk ==
  /\ build_pc = "chunks"
  /\ build_i <= Len(chunks)
  /\ LET chunk == chunks[build_i]
         chunk_id == ChunkId(doc_id, build_i - 1, chunk, timestamp)
     IN /\ chunk_ids' = Append(chunk_ids, chunk_id)
        /\ \E o1 \in GraphOutcomes(faults_left) :
             \E o2 \in (IF o1 = "raises" THEN {"skipped"}
                        ELSE GraphOutcomes(faults_left - Cost(o1))) :
               \E resp \in llm_plan :
                 LET ex == IF extractor_ok THEN Extract(chunk, resp)
                           ELSE [raised |-> TRUE, entities |-> <<>>,
                                 relationships |-> <<>>]
                     errs1 == IF o1 = "raises" \/ o2 = "raises"
                              THEN Append(build_errors, "Chunk creation failed")
                              ELSE build_errors
                     wlog == <<LogEntry("vertex", "chunk", chunk_id, "", "chunk", o1)>>
                             \o (IF o2 = "skipped" THEN <<>>
                                 ELSE <<LogEntry("edge", "contains", doc_id, chunk_id,
                                                 "contains", o2)>>)
                 IN /\ vertices' = IF o1 = "ok"
                                   THEN InsertVertex(vertices, "chunk", chunk_id, "",
                                                     timestamp)
                                   ELSE vertices
                    /\ graph' = IF o2 = "ok"
                                THEN InsertEdge(graph, "contains", doc_id, chunk_id)
                                ELSE graph
                    /\ faults_left' = faults_left - Cost(o1)
                                        - (IF o2 = "skipped" THEN 0 ELSE Cost(o2))
                    /\ build_errors' =
                         IF ex.raised
                         THEN Append(errs1, "Entity extraction failed")
                         ELSE errs1
                    /\ all_entities' = all_entities \o ex.entities
                    /\ all_relationships' = all_relationships \o ex.relationships
                    /\ build_log' =
                         build_log \o wlog \o
                           <<LogEntry("extract", "chunk", chunk_id, "",
                                      IF ex.entities = <<>> /\ ex.relationships = <<>>
                                      THEN "empty" ELSE "some",
                                      IF ex.raised THEN "raised"
                                      ELSE IF ~extractor_ok \/ Failing(resp)
                                           THEN "failed" ELSE "ok")>>
  /\ build_i' = build_i + 1
  /\ UNCHANGED <<retVars, expLocals, callVars, svcVars, buildInput, run, merged, vectors,
                 first_run>>
  /\ UNCHANGED <<build_pc, timestamp, doc_id, entity_vid_map, entities_created,
                 relationships_created, build_result>>

\* self.extractor cannot be constructed: merge_results is called outside
\* any try block and the build raises
BuildMergeRaises ==
  /\ build_pc = "chunks"
  /\ build_i > Len(chunks)
  /\ ~extractor_ok
  /\ build_pc' = "raised"
  /\ UNCHANGED <<retVars, expVars, callVars, svcVars, buildInput, run, buildLocals, merged,
                 vertices, vectors, faults_left, first_run>>

\* merged = merge_results([ExtractionResult(all_entities, all_relationships)])
BuildMerge ==
  /\ build_pc = "chunks"
  /\ build_i > Len(chunks)
  /\ extractor_ok
  /\ merged' = MergeResults(<<[entities |-> all_entities,
                               relationships |-> all_relationships]>>)
  /\ build_i' = 1
  /\ build_pc' = "entities"
  /\ UNCHANGED <<retVars, expVars, callVars, svcVars, buildInput, run, vertices, vectors,
                 faults_left, first_run>>
  /\ UNCHANGED <<timestamp, doc_id, chunk_ids, all_entities, all_relationships,
                 entity_vid_map, entities_created, relationships_created,
                 build_errors, build_result, build_log>>

\* one iteration of "for entity in merged.entities"
BuildEntity ==
  /\ build_pc = "entities"
  /\ build_i <= Len(merged.entities)
  /\ LET entity == merged.entities[build_i]
         entity_vid == EntityVid(entity, timestamp)
         tag_name == TagName(entity.type)
     IN /\ entity_vid_map' = MapPut(entity_vid_map, Lower(entity.name), entity_vid)
        /\ \E o \in GraphOutcomes(faults_left) :
             /\ vertices' = IF o = "ok"
                            THEN InsertVertex(vertices, tag_name, entity_vid,
                                              entity.name, timestamp)
                            ELSE vertices
             /\ entities_created' = CountAfter(entities_created, o)
             /\ build_errors' = ErrorsAfter(build_errors, o, "Entity creation failed")
             /\ build_log' = Append(build_log,
                               LogEntry("vertex", "entity", entity_vid, "", tag_name, o))
             /\ faults_left' = faults_left - Cost(o)
  /\ build_i' = build_i + 1
  /\ UNCHANGED <<retVars, expVars, callVars, svcVars, buildInput, run, merged, vectors,
                 first_run>>
  /\ UNCHANGED <<build_pc, timestamp, doc_id, chunk_ids, all_entities,
                 all_relationships, relationships_created, build_result>>

\* the entity loop is over
BuildEntitiesDone ==
  /\ build_pc = "entities"
  /\ build_i > Len(merged.entities)
  /\ build_i' = 1
  /\ build_pc' = "edges"
  /\ UNCHANGED <<retVars, expVars, callVars, svcVars, buildInput, run, merged, vertices,
                 vectors, faults_left, first_run>>
  /\ UNCHANGED <<timestamp, doc_id, chunk_ids, all_entities, all_relationships,
                 entity_vid_map, entities_created, relationships_created,
                 build_errors, build_result, build_log>>

\* "for rel in merged.relationships": an endpoint without a vid, continue
BuildEdgeSkip ==
  /\ build_pc = "edges"
  /\ build_i <= Len(merged.relationships)
  /\ LET rel == merged.relationships[build_i]
     IN \/ MapGet(entity_vid_map, Lower(rel.source)) = ""
        \/ MapGet(entity_vid_map, Lower(rel.target)) = ""
  /\ build_i' = build_i + 1
  /\ UNCHANGED <<retVars, expVars, callVars, svcVars, buildInput, run, merged, vertices,
                 vectors, faults_left, first_run>>
  /\ UNCHANGED <<build_pc, timestamp, doc_id, chunk_ids, all_entities,
                 all_relationships, entity_vid_map, entities_created,
                 relationships_created, build_errors, build_result, build_log>>

\* "for rel in merged.relationships": the edge is inserted
BuildEdge ==
  /\ build_pc = "edges"
  /\ build_i <= Len(merged.relationships)
  /\ LET rel == merged.relationships[build_i]
         source_vid == MapGet(entity_vid_map, Lower(rel.source))
         target_vid == MapGet(entity_vid_map, Lower(rel.target))
         edge_type == EdgeType(rel.relation_type)
     IN /\ source_vid # ""
        /\ target_vid # ""
        /\ \E o \in GraphOutcomes(faults_left) :
             /\ graph' = IF o = "ok"
                         THEN InsertEdge(graph, edge_type, source_vid, target_vid)
                         ELSE graph
             /\ relationships_created' = CountAfter(relationships_created, o)
             /\ build_errors' =
                  ErrorsAfter(build_errors, o, "Relationship creation failed")
             /\ build_log' = Append(build_log,
                               LogEntry("edge", "relationship", source_vid, target_vid,
                                        edge_type, o))
             /\ faults_left' = faults_left - Cost(o)
  /\ build_i' = build_i + 1
  /\ UNCHANGED <<retVars, expLocals, callVars, svcVars, buildInput, run, merged, vertices,
                 vectors, first_run>>
  /\ UNCHANGED <<build_pc, timestamp, doc_id, chunk_ids, all_entities,
                 all_relationships, entity_vid_map, entities_created, build_result>>

\* the relationship loop is over
BuildEdgesDone ==
  /\ build_pc = "edges"
  /\ build_i > Len(merged.relationships)
  /\ build_pc' = "chunk_vectors"
  /\ UNCHANGED <<retVars, expVars, callVars, svcVars, buildInput, run, buildLocals, merged,
                 vertices, vectors, faults_left, first_run>>

\* the points of the chunks
ChunkPoints(ids, source) ==
  [i \in 1..Len(ids) |->
     PointOf(ids[i], [chunk_id |-> ids[i], entity_id |-> "", name |-> "",
                      document_name |-> source, is_entity |-> FALSE])]

\* "Create vector embeddings for chunks"
BuildChunkVectors ==
  /\ build_pc = "chunk_vectors"
  /\ \E o \in VectorOutcomes(faults_left) :
       /\ vectors' = IF o = "ok"
                     THEN Upsert(vectors, ChunkPoints(chunk_ids, source_name))
                     ELSE vectors
       /\ build_errors' = ErrorsAfter(build_errors, o, "Vector embedding failed")
       /\ build_log' = Append(build_log,
                         LogEntry("vectors", "chunks", "", "", "", o))
       /\ faults_left' = faults_left - Cost(o)
  /\ build_pc' = "entity_vectors"
  /\ UNCHANGED <<retVars, expVars, callVars, svcVars, buildInput, run, merged, vertices,
                 first_run>>
  /\ UNCHANGED <<timestamp, doc_id, chunk_ids, build_i, all_entities,
                 all_relationships, entity_vid_map, entities_created,
                 relationships_created, build_result>>

\* entity_ids of the entity embeddings: the vid the map holds for the
\* lower-cased name of each merged entity
EntityVectorIds(ents, vid_map) ==
  LET ids == [i \in 1..Len(ents) |-> MapGet(vid_map, Lower(ents[i].name))]
  IN SelectSeq(ids, LAMBDA id : id # "")

\* entity_payloads: zip(entity_ids, merged.entities)
EntityPoints(ents, vid_map) ==
  LET ids == EntityVectorIds(ents, vid_map)
  IN [i \in 1..Min(Len(ids), Len(ents)) |->
        PointOf(ids[i], [chunk_id |-> "", entity_id |-> ids[i], name |-> ents[i].name,
                         document_name |-> "", is_entity |-> TRUE])]

\* "Also create embeddings for entities": no entity, nothing to write
BuildNoEntityVectors ==
  /\ build_pc = "entity_vectors"
  /\ EntityVectorIds(merged.entities, entity_vid_map) = <<>>
  /\ build_pc' = "return"
  /\ UNCHANGED <<retVars, expVars, callVars, svcVars, buildInput, run, buildLocals, merged,
                 vertices, vectors, faults_left, first_run>>

\* "Also create embeddings for entities"
BuildEntityVectors ==
  /\ build_pc = "entity_vectors"
  /\ EntityVectorIds(merged.entities, entity_vid_map) # <<>>
  /\ \E o \in VectorOutcomes(faults_left) :
       /\ vectors' = IF o = "ok"
                     THEN Upsert(vectors, EntityPoints(merged.entities, entity_vid_map))
                     ELSE vectors
       /\ build_errors' = ErrorsAfter(build_errors, o, "Entity embedding failed")
       /\ build_log' = Append(build_log,
                         LogEntry("vectors", "entities", "", "", "", o))
       /\ faults_left' = faults_left - Cost(o)
  /\ build_pc' = "return"
  /\ UNCHANGED <<retVars, expVars, callVars, svcVars, buildInput, run, merged, vertices,
                 first_run>>
  /\ UNCHANGED <<timestamp, doc_id, chunk_ids, build_i, all_entities,
                 all_relationships, entity_vid_map, entities_created,
                 relationships_created, build_result>>

\* return BuildResult(...)
BuildReturn ==
  /\ build_pc = "return"
  /\ build_result' =
       [returned |-> TRUE,
        success |-> Len(build_errors) = 0 \/ entities_created > 0,
        document_id |-> doc_id, chunks_count |-> Len(chunks),
        entities_count |-> entities_created,
        relationships_count |-> relationships_created]
  /\ build_pc' = "done"
  /\ UNCHANGED <<retVars, expVars, callVars, svcVars, buildInput, run, merged, vertices,
                 vectors, faults_left, first_run>>
  /\ UNCHANGED <<timestamp, doc_id, chunk_ids, build_i, all_entities,
                 all_relationships, entity_vid_map, entities_created,
                 relationships_created, build_errors, build_log>>

\* the ids a build generated: the document, the chunks, the entities
GeneratedIds ==
  {doc_id} \cup Range(chunk_ids)
    \cup {EntityVid(merged.entities[i], timestamp) : i \in 1..Len(merged.entities)}

\* the same build is requested again, with the same text and source name
BuildAgain ==
  /\ build_pc = "done"
  /\ run < last_run
  /\ first_run' = [ids |-> GeneratedIds,
                   extracted |-> <<all_entities, all_relationships>>,
                   vertices |-> {v.vid : v \in vertices},
                   vectors |-> {p.id : p \in vectors}]
  /\ run' = run + 1
  /\ timestamp' = 0
  /\ doc_id' = ""
  /\ chunk_ids' = <<>>
  /\ build_i' = 0
  /\ all_entities' = <<>>
  /\ all_relationships' = <<>>
  /\ merged' = NoMerged
  /\ entity_vid_map' = <<>>
  /\ entities_created' = 0
  /\ relationships_created' = 0
  /\ build_errors' = <<>>
  /\ build_result' = NoBuildResult
  /\ build_log' = <<>>
  /\ build_pc' = "start"
  /\ UNCHANGED <<retVars, expVars, callVars, svcVars, buildInput, vertices, vectors,
                 faults_left>>

\* ----------------------------------------- specification: one retrieve call
RetrieveScores == {45, 60}
GraphDepths == {0, 2}

\* the backend returns its hits by decreasing score
RetrieveHitLists ==
  {h \in SeqsUpTo(HitsWith(RetrieveScores), MaxHits) :
     \A i \in 1..(Len(h) - 1) : h[i].score >= h[i + 1].score}

\* the graph spaces of the retrieval runs: at most one edge
RetrievalGraphs == {{}} \cup {{e} : e \in AllEdges \cup ExtractedFromEdges}

\* the response as constructed (success = True, everything else empty)
FreshResponse ==
  /\ results = <<>>
  /\ sources = <<>>
  /\ errors = <<>>
  /\ graph_context = NoContext
  /\ answer = "None"
  /\ success = TRUE
  /\ should_expand = FALSE
  /\ failed = <<>>
  /\ trace = <<>>

\* expand not running
ExpandIdle ==
  /\ entity_ids = <<>>
  /\ max_depth = 0
  /\ pending_expansion = <<>>
  /\ seen_nodes = {}
  /\ seen_edges = {}
  /\ nodes = <<>>
  /\ edges = <<>>
  /\ queried = <<>>
  /\ failed_queries = <<>>
  /\ exp_pc = "idle"

\* no retrieve call running
RetrieveIdle ==
  /\ search_type = "hybrid"
  /\ caller_expand = FALSE
  /\ expand_graph = FALSE
  /\ use_llm = FALSE
  /\ graph_depth = 0
  /\ hits = <<>>
  /\ min_score = MIN_SIMILARITY_THRESHOLD
  /\ FreshResponse
  /\ pc = "idle"

Init ==
  /\ search_type \in SearchTypes
  /\ caller_expand \in BOOLEAN
  /\ expand_graph = caller_expand
  /\ use_llm \in BOOLEAN
  /\ graph_depth \in GraphDepths
  /\ hits \in RetrieveHitLists
  /\ min_score = MIN_SIMILARITY_THRESHOLD
  /\ FreshResponse
  /\ pc = "search"
  /\ graph \in RetrievalGraphs
  /\ ExpandIdle
  /\ OtherIdle

Next ==
  \/ RetrieveVectorSearch
  \/ RetrieveVectorSearchFails
  \/ RetrieveGraphSearch
  \/ RetrieveGraphSearchFails
  \/ RetrieveSkipExpansion
  \/ RetrieveExpansionFails
  \/ RetrieveNoSeeds
  \/ RetrieveExpand
  \/ ExpandSkipDeep
  \/ ExpandSkipSeen
  \/ ExpandQueryFails
  \/ ExpandNode
  \/ ExpandReturn
  \/ RetrieveExpanded
  \/ RetrieveNoAnswer
  \/ RetrieveAnswer
  \/ RetrieveAnswerFails

Spec == Init /\ [][Next]_vars

\* ------------------------------- specification: the quality gate alone
GateScores == {39, 50, 59, 60}

\* a result as far as the gate reads it
GateResult(s) ==
  [id |-> "chunk_1", name |-> "doc.txt", type |-> "chunk", score |-> s,
   is_entity |-> FALSE]

GateResultLists ==
  {[i \in 1..Len(sc) |-> GateResult(sc[i])] : sc \in SeqsUpTo(GateScores, MaxGateResults)}

InitGate ==
  /\ search_type \in SearchTypes
  /\ caller_expand = FALSE
  /\ expand_graph = FALSE
  /\ use_llm = FALSE
  /\ graph_depth = 0
  /\ hits = <<>>
  /\ min_score = MIN_SIMILARITY_THRESHOLD
  /\ results \in GateResultLists
  /\ sources = <<>>
  /\ errors = <<>>
  /\ graph_context = NoContext
  /\ answer = "None"
  /\ success = TRUE
  /\ should_expand = FALSE
  /\ failed = <<>>
  /\ trace = <<>>
  /\ pc = "gate"
  /\ graph = {}
  /\ ExpandIdle
  /\ OtherIdle

\* a call _should_expand_graph(results, search_type)
GateCall ==
  /\ pc = "gate"
  /\ should_expand' = ShouldExpandGraph(results, search_type)
  /\ pc' = "done"
  /\ UNCHANGED <<search_type, caller_expand, expand_graph, use_llm, graph_depth,
                 hits, min_score, results, sources, errors, graph_context, answer,
                 success, failed, trace>>
  /\ UNCHANGED <<expVars, otherVars>>

NextGate == GateCall

SpecGate == InitGate /\ [][NextGate]_vars

\* the first five results
Top5 == 1..Min(5, Len(results))

\* C3: the gate is true for graph search; otherwise false without results;
\* otherwise true exactly when, over the first 5 results, the largest score
\* is at least 0.6 or the mean score at least 0.5.
C3_QualityGate ==
  pc = "done" =>
    (should_expand <=>
       \/ search_type = "graph"
       \/ /\ results # <<>>
          /\ \/ \E i \in Top5 : results[i].score >= 60
             \/ Sum([i \in Top5 |-> results[i].score - 50]) >= 0)

\* the boundary: five results of 0.50 followed by a sixth of 0.39 pass the
\* gate in hybrid mode
C3_Witness ==
  /\ pc = "done"
  /\ search_type = "hybrid"
  /\ Len(results) = 6
  /\ \A i \in 1..5 : results[i].score = 50
  /\ results[6].score = 39
  /\ should_expand

\* ------------------------------- specification: vector search alone
VectorScores == {39, 40, 41}

InitVectorSearch ==
  /\ search_type = "vector"
  /\ caller_expand = FALSE
  /\ expand_graph = FALSE
  /\ use_llm = FALSE
  /\ graph_depth = 0
  /\ hits \in SeqsUpTo(HitsWith(VectorScores), MaxBackendHits)
  /\ min_score \in {MIN_SIMILARITY_THRESHOLD, 41}
  /\ FreshResponse
  /\ pc = "vector_search"
  /\ graph = {}
  /\ ExpandIdle
  /\ OtherIdle

\* a call VectorSearchService.search(query, collection, top_k, min_score)
VectorSearchCall ==
  /\ pc = "vector_search"
  /\ results' = VectorSearch(hits, min_score).results
  /\ sources' = VectorSearch(hits, min_score).sources
  /\ pc' = "done"
  /\ UNCHANGED <<search_type, caller_expand, expand_graph, use_llm, graph_depth,
                 hits, min_score, errors, graph_context, answer, success,
                 should_expand, failed, trace>>
  /\ UNCHANGED <<expVars, otherVars>>

NextVectorSearch == VectorSearchCall

SpecVectorSearch == InitVectorSearch /\ [][NextVectorSearch]_vars

\* the positions of the hits scoring at least min_score, in backend order
KeptPositions == SelectSeq([i \in 1..Len(hits) |-> i], LAMBDA i : hits[i].score >= min_score)

\* C9: search returns exactly the backend hits whose score is at least
\* min_score, in the backend's order, and only their document names as
\* sources.
C9_ThresholdFilter ==
  pc = "done" =>
    /\ Len(results) = Len(KeptPositions)
    /\ \A k \in 1..Len(results) :
         /\ results[k].score = hits[KeptPositions[k]].score
         /\ results[k].is_entity = hits[KeptPositions[k]].is_entity
         /\ results[k].id \in {hits[KeptPositions[k]].entity_id,
                               hits[KeptPositions[k]].chunk_id}
    /\ sources =
         LET named == SelectSeq(KeptPositions, LAMBDA i : hits[i].document_name # "")
         IN [k \in 1..Len(named) |-> hits[named[k]].document_name]

\* a hit at exactly the threshold kept between two dropped hits, one of
\* which carried a document name
C9_Witness ==
  /\ pc = "done"
  /\ Len(hits) = 3
  /\ hits[1].score < min_score /\ hits[1].document_name # ""
  /\ hits[2].score = min_score
  /\ hits[3].score < min_score
  /\ Len(results) = 1
  /\ sources = IF hits[2].document_name # "" THEN <<hits[2].document_name>> ELSE <<>>

\* ------------------------------------------------ properties of retrieve
\* C4 (as claimed): with search_type = vector neither graph search nor
\* graph expansion runs, and the response carries no graph_context.
C4_VectorOnly ==
  (pc = "done" /\ search_type = "vector") =>
    /\ "graph_search" \notin Range(trace)
    /\ "expand" \notin Range(trace)
    /\ ~graph_context.present

\* C5 (as claimed): with search_type = graph, whenever graph search returned
\* an entity, expand is called with the entity ids as seeds, whatever the
\* caller's expand_graph; vector search is not run.
C5_GraphForcesExpand_Claimed ==
  (pc = "done" /\ search_type = "graph" /\ results # <<>>) =>
    /\ "expand" \in Range(trace)
    /\ entity_ids = Ids(results)
    /\ "vector_search" \notin Range(trace)

\* C5 (amended): the same, unless the seed collection itself raised (the
\* expansion service could not open its graph connection), which is
\* recorded as a graph expansion error.
C5_GraphForcesExpand ==
  (pc = "done" /\ search_type = "graph" /\ results # <<>>) =>
    /\ "vector_search" \notin Range(trace)
    /\ "expansion" \in Range(trace)
    /\ IF "expansion" \in Range(failed)
       THEN "expand" \notin Range(trace) /\ ~graph_context.present
       ELSE "expand" \in Range(trace) /\ entity_ids = Ids(results)
            /\ graph_context.present

\* graph mode, the caller asked for no expansion, graph search found an
\* entity and expand ran on it
C5_Witness ==
  /\ pc = "done"
  /\ search_type = "graph"
  /\ ~caller_expand
  /\ results # <<>>
  /\ "expand" \in Range(trace)
  /\ entity_ids = Ids(results)
  /\ graph_context.present

\* C6: in hybrid mode expansion is attempted exactly when the caller's
\* expand_graph is true and the gate passes on the vector results; with
\* expand_graph false there is no expansion and no graph_context.
C6_HybridGate ==
  (pc = "done" /\ search_type = "hybrid") =>
    /\ ("expansion" \in Range(trace))
         <=> (caller_expand /\ ShouldExpandGraph(results, "hybrid"))
    /\ ~caller_expand => ("expand" \notin Range(trace) /\ ~graph_context.present)

\* hybrid mode, a result scoring 0.6 and expand_graph false: no expansion
C6_Witness ==
  /\ pc = "done"
  /\ search_type = "hybrid"
  /\ ~caller_expand
  /\ \E i \in 1..Len(results) : results[i].score >= 60 /\ results[i].is_entity
  /\ "expansion" \notin Range(trace)
  /\ ~graph_context.present

\* C7: success is true exactly when errors is empty or results is not.
C7_Success ==
  pc = "done" => (success <=> (errors = <<>> \/ results # <<>>))

\* a response with an error and a result, reported successful
C7_Witness ==
  /\ pc = "done"
  /\ errors # <<>>
  /\ results # <<>>
  /\ success

\* C8: a failing stage never stops retrieve: each failure is one entry of
\* errors, the results of the search stay in the response, the later
\* stages still run, and the response is returned.
C8_FailSoft ==
  /\ pc \in {"search", "expansion", "expanding", "answer"} => ENABLED Next
  /\ pc = "done" =>
       /\ Len(errors) = Len(failed)
       /\ results = IF search_type = "graph" \/ "vector_search" \in Range(failed)
                    THEN results ELSE VectorSearch(hits, min_score).results
       /\ ("vector_search" \in Range(failed) \/ "graph_search" \in Range(failed))
            => results = <<>>
       /\ (expand_graph /\ ShouldExpandGraph(results, search_type))
            => "expansion" \in Range(trace)
       /\ (use_llm /\ (results # <<>> \/ graph_context.present))
            => "llm" \in Range(trace)

\* the expansion stage failed after a successful search; the results are
\* kept and answer generation still ran, and failed too
C8_Witness ==
  /\ pc = "done"
  /\ failed = <<"expansion", "llm">>
  /\ Len(errors) = 2
  /\ results # <<>>
  /\ success

\* ------------------------------------------- specification: expand alone
\* a call expand(entity_ids, space, max_depth) on any graph of the family
InitExpand ==
  /\ RetrieveIdle
  /\ OtherIdle
  /\ graph \in Graphs
  /\ entity_ids \in SeedLists
  /\ max_depth \in 0..MaxDepth
  /\ pending_expansion = SeedEntries(entity_ids)
  /\ seen_nodes = {}
  /\ seen_edges = {}
  /\ nodes = <<>>
  /\ edges = <<>>
  /\ queried = <<>>
  /\ failed_queries = <<>>
  /\ exp_pc = "loop"

NextExpand ==
  \/ ExpandSkipDeep
  \/ ExpandSkipSeen
  \/ ExpandQueryFails
  \/ ExpandNode
  \/ ExpandReturn

SpecExpand == InitExpand /\ [][NextExpand]_vars

\* ------------------------------------------------- properties of expand
\* the seeds that were enqueued: the first 10 ids passed in
EnqueuedSeeds == Range(Prefix(entity_ids, SEED_LIMIT))

\* a and b are joined by an edge of type t, in either direction
Joined(g, a, b, t) ==
  \E e \in g : e.type = t /\ ((e.src = a /\ e.dst = b) \/ (e.src = b /\ e.dst = a))

\* the ids within k undirected hops of the set S
RECURSIVE Within(_, _, _)
Within(g, S, k) ==
  IF k = 0 THEN S
  ELSE Within(g, S \cup {v \in Vids : \E u \in S, t \in EdgeTypes : Joined(g, u, v, t)},
              k - 1)

\* C1 (as claimed): in the GraphContext returned by expand every node id
\* appears at most once in nodes.
C1_NoRevisit ==
  exp_pc = "done" =>
    \A i, j \in 1..Len(nodes) : i # j => nodes[i].id # nodes[j].id

\* C2: every node of the returned GraphContext is within max_depth
\* undirected hops of one of the enqueued seeds (the first 10 ids passed in).
C2_BfsBound ==
  exp_pc = "done" =>
    \A i \in 1..Len(nodes) : nodes[i].id \in Within(graph, EnqueuedSeeds, max_depth)

\* a finished expansion of depth 1 that returned nodes and left out a vertex
\* lying exactly two hops from the seeds
C2_Witness ==
  /\ exp_pc = "done"
  /\ max_depth = 1
  /\ nodes # <<>>
  /\ \E v \in Vids :
       /\ v \in Within(graph, EnqueuedSeeds, 2)
       /\ v \notin Within(graph, EnqueuedSeeds, 1)
       /\ \A i \in 1..Len(nodes) : nodes[i].id # v

\* the entries appended to the queue by the step being taken
AppendedEntries ==
  SubSeq(pending_expansion', Len(pending_expansion), Len(pending_expansion'))

\* in the step that expands the head of the queue, every entry appended for
\* M is preceded by an appended entry for W, for the pairs (W, M) allowed
PriorityOrder(Allowed(_, _, _)) ==
  (exp_pc = "loop" /\ pending_expansion # <<>>) =>
    LET vid == Head(pending_expansion).vid
        unseen == Vids \ (seen_nodes \cup {vid})
    IN \A W \in unseen, M \in unseen :
         (/\ W # M
          /\ Joined(graph, vid, W, "works_for")
          /\ Joined(graph, vid, M, "mentions")
          /\ Allowed(vid, W, M))
         => \A j \in 1..Len(AppendedEntries) :
              AppendedEntries[j].vid = M
              => \E i \in 1..(j - 1) : AppendedEntries[i].vid = W

AnyPair(vid, W, M) == TRUE

OnlyNonPriority(vid, W, M) ==
  \A t \in PRIORITY_EDGE_TYPES : ~Joined(graph, vid, M, t)

\* C10 (as claimed): while expanding a node with a works_for edge to an
\* unseen neighbour W and a mentions edge to another unseen neighbour M,
\* W is enqueued before M.
C10_PriorityOrder_Claimed == [][PriorityOrder(AnyPair)]_vars

\* C10 (amended): the same, for an M that no priority-type edge joins to the
\* node being expanded: every entry enqueued for M by the step follows an
\* entry enqueued for W by the same step.
C10_PriorityOrder == [][PriorityOrder(OnlyNonPriority)]_vars

\* the first node expanded had a works_for neighbour and a mentions-only
\* neighbour, and both were enqueued, the works_for neighbour first
C10_Witness ==
  /\ exp_pc = "loop"
  /\ Len(queried) = 1
  /\ Len(pending_expansion) = 2
  /\ LET vid == queried[1]
         W == pending_expansion[1].vid
         M == pending_expansion[2].vid
     IN /\ entity_ids = <<vid>>
        /\ W # M /\ W # vid /\ M # vid
        /\ Joined(graph, vid, W, "works_for")
        /\ Joined(graph, vid, M, "mentions")
        /\ ~Joined(graph, vid, M, "works_for")

\* ------------------------------------ specification: merge_results alone
\* the entities the extractions are made of: two spellings of one key with
\* several descriptions, and an entity of another key
MergeEntities ==
  { [name |-> "Ann", type |-> "person", description |-> "x"],
    [name |-> "Ann", type |-> "person", description |-> "y"],
    [name |-> "ann", type |-> "Person", description |-> ""],
    [name |-> "ann", type |-> "Person", description |-> "y"],
    [name |-> "Bob", type |-> "person", description |-> "x"] }

\* the relationships: both directions of one relation, and a second
\* spelling of the first
MergeRelationships ==
  { [source |-> "Ann", target |-> "Bob", relation_type |-> "knows"],
    [source |-> "Bob", target |-> "Ann", relation_type |-> "knows"],
    [source |-> "ann", target |-> "bob", relation_type |-> "Knows"] }

\* a list of entities and a list of relationships as one result, as a
\* result of entities and a result of relationships, or cut after the
\* first element of each
ExtractionLists(E, R) ==
  { <<[entities |-> E, relationships |-> R]>>,
    <<[entities |-> E, relationships |-> <<>>],
      [entities |-> <<>>, relationships |-> R]>>,
    <<[entities |-> Prefix(E, 1), relationships |-> Prefix(R, 1)],
      [entities |-> SubSeq(E, 2, Len(E)), relationships |-> SubSeq(R, 2, Len(R))]>> }

InitMerge ==
  /\ RetrieveIdle
  /\ graph = {}
  /\ ExpandIdle
  /\ BuildIdle
  /\ SvcIdle
  /\ raw_json = ""
  /\ fixed = ""
  /\ context = <<>>
  /\ seed_out = [raised |-> FALSE, seeds |-> <<>>, lookups |-> <<>>, expand |-> FALSE]
  /\ call_pc = "call"
  /\ \E E \in SeqsUpTo(MergeEntities, MaxMergeEntities) :
       \E R \in SeqsUpTo(MergeRelationships, MaxMergeRelationships) :
         extractions \in ExtractionLists(E, R)

\* a call merge_results(results)
MergeCall ==
  /\ call_pc = "call"
  /\ merged' = MergeResults(extractions)
  /\ call_pc' = "done"
  /\ UNCHANGED <<retVars, expVars, svcVars>>
  /\ UNCHANGED <<extractions, raw_json, fixed, context, seed_out>>
  /\ UNCHANGED <<build_pc, buildInput, run, buildLocals, vertices, vectors,
                 faults_left, first_run>>

NextMerge == MergeCall

SpecMerge == InitMerge /\ [][NextMerge]_vars

\* the entities and the relationships passed in, in input order
RECURSIVE InputEntities(_)
InputEntities(res) ==
  IF res = <<>> THEN <<>> ELSE Head(res).entities \o InputEntities(Tail(res))

RECURSIVE InputRelationships(_)
InputRelationships(res) ==
  IF res = <<>> THEN <<>> ELSE Head(res).relationships \o InputRelationships(Tail(res))

\* name and type compared case-insensitively
SameEntity(a, b) == Lower(a.name) = Lower(b.name) /\ Lower(a.type) = Lower(b.type)

\* the input holds exactly two entities of the key of its entity at i, at
\* positions i < j, and their descriptions differ
DuplicatePair(in, i, j) ==
  /\ i < j
  /\ {k \in 1..Len(in) : SameEntity(in[k], in[i])} = {i, j}
  /\ in[i].description # in[j].description

\* C12 (as claimed): two entities of one name and type with differing
\* descriptions d1 and d2 merge into exactly one entity of that key, whose
\* description is d1, "; ", d2.
C12_MergeDescription_Claimed ==
  call_pc = "done" =>
    LET in == InputEntities(extractions)
    IN \A i, j \in 1..Len(in) :
         DuplicatePair(in, i, j) =>
           /\ Cardinality({k \in 1..Len(merged.entities) :
                             SameEntity(merged.entities[k], in[i])}) = 1
           /\ \A k \in 1..Len(merged.entities) :
                SameEntity(merged.entities[k], in[i]) =>
                  merged.entities[k].description =
                    in[i].description \o "; " \o in[j].description

\* C12 (amended): the same when d2 is not empty; and whatever the number of
\* duplicates, the merged description of a key starts with the description
\* of its first entity, which is never replaced.
C12_MergeDescription ==
  call_pc = "done" =>
    LET in == InputEntities(extractions)
    IN /\ \A i, j \in 1..Len(in) :
            (DuplicatePair(in, i, j) /\ in[j].description # "") =>
              /\ Cardinality({k \in 1..Len(merged.entities) :
                                SameEntity(merged.entities[k], in[i])}) = 1
              /\ \A k \in 1..Len(merged.entities) :
                   SameEntity(merged.entities[k], in[i]) =>
                     merged.entities[k].description =
                       in[i].description \o "; " \o in[j].description
       /\ \A i \in 1..Len(in) :
            (\A h \in 1..(i - 1) : ~SameEntity(in[h], in[i])) =>
              \E k \in 1..Len(merged.entities) :
                /\ SameEntity(merged.entities[k], in[i])
                /\ Prefix(merged.entities[k].description, Len(in[i].description))
                     = in[i].description

\* a merge of "Ann"/person "x" and "ann"/Person "y" has returned "x; y"
C12_Witness ==
  /\ call_pc = "done"
  /\ LET in == InputEntities(extractions)
     IN /\ Len(in) = 2
        /\ in[1] = [name |-> "Ann", type |-> "person", description |-> "x"]
        /\ in[2] = [name |-> "ann", type |-> "Person", description |-> "y"]
  /\ Len(merged.entities) = 1
  /\ merged.entities[1].description = "x; y"

\* the key of a relationship, as the claim spells it
DirectedKey(r) ==
  Lower(r.source) \o "-" \o Lower(r.relation_type) \o "-" \o Lower(r.target)

\* the positions of the first occurrence of every key
FirstOccurrences(in) ==
  SelectSeq([i \in 1..Len(in) |-> i],
            LAMBDA i : \A h \in 1..(i - 1) : DirectedKey(in[h]) # DirectedKey(in[i]))

\* C13: merge keeps exactly the first relationship of every key
\* lower(source)-lower(relation_type)-lower(target), in input order; the
\* two directions of a relation have different keys and both survive.
C13_RelationshipDedup ==
  call_pc = "done" =>
    LET in == InputRelationships(extractions)
        first == FirstOccurrences(in)
    IN /\ merged.relationships = [k \in 1..Len(first) |-> in[first[k]]]
       /\ \A i, j \in 1..Len(in) :
            (/\ in[i].source = in[j].target /\ in[i].target = in[j].source
             /\ in[i].source # in[i].target
             /\ in[i].relation_type = in[j].relation_type) =>
              /\ \E k \in 1..Len(merged.relationships) :
                   DirectedKey(merged.relationships[k]) = DirectedKey(in[i])
              /\ \E k \in 1..Len(merged.relationships) :
                   DirectedKey(merged.relationships[k]) = DirectedKey(in[j])

\* (Ann, knows, Bob), (Bob, knows, Ann) and a second spelling of the first
\* were merged: the two directions are kept, the repetition is dropped
C13_Witness ==
  /\ call_pc = "done"
  /\ InputRelationships(extractions) =
       << [source |-> "Ann", target |-> "Bob", relation_type |-> "knows"],
          [source |-> "Bob", target |-> "Ann", relation_type |-> "knows"],
          [source |-> "ann", target |-> "bob", relation_type |-> "Knows"] >>
  /\ merged.relationships =
       << [source |-> "Ann", target |-> "Bob", relation_type |-> "knows"],
          [source |-> "Bob", target |-> "Ann", relation_type |-> "knows"] >>

\* --------------------------------------- specification: builds from text
\* the answers of the LLM: the call raises, the response holds no JSON
\* object, JSON that cannot be repaired, JSON whose "entities" is null, and
\* two extractions (one of them parsed after repair, holding an item that
\* fails validation, an upper-case type, a type outside the tag set, a
\* relation type outside the edge types and a relationship to an entity
\* that was not extracted)
NoAnswer ==
  [raises |-> FALSE, json |-> "valid", entities_ok |-> TRUE, entities |-> <<>>,
   relationships |-> <<>>]

RawEntity(name, type, description) ==
  [name |-> name, type |-> type, description |-> description, ok |-> TRUE]

RawRelationship(source, relation_type, target) ==
  [source |-> source, relation_type |-> relation_type, target |-> target, ok |-> TRUE]

AnswerA ==
  [NoAnswer EXCEPT
     !.entities = <<RawEntity("Ann", "Person", "x"),
                    RawEntity("Acme", "organization", "")>>,
     !.relationships = <<RawRelationship("Ann", "works_for", "Acme")>>]

AnswerB ==
  [NoAnswer EXCEPT
     !.json = "fixable",
     !.entities = <<RawEntity("ann", "person", "y"),
                    [RawEntity("", "person", "") EXCEPT !.ok = FALSE],
                    RawEntity("Kit", "product", "")>>,
     !.relationships = <<RawRelationship("ann", "Knows", "Kit"),
                         RawRelationship("Ann", "uses", "Zed")>>]

FailingAnswers ==
  { [NoAnswer EXCEPT !.raises = TRUE],
    [NoAnswer EXCEPT !.json = "none"],
    [NoAnswer EXCEPT !.json = "broken"],
    [NoAnswer EXCEPT !.entities_ok = FALSE] }

PlanOutcomes == FailingAnswers \cup {AnswerA, AnswerB}

\* the texts built, with the chunks the chunker returns for them
BuildInputs ==
  { [source_name |-> "a.txt", text |-> "", chunks |-> <<>>],
    [source_name |-> "a.txt", text |-> "Ann.", chunks |-> <<"Ann.">>],
    [source_name |-> "a.txt", text |-> "Ann. Kit.", chunks |-> <<"Ann.", "Kit.">>] }

\* a build about to start on the given input, the stores empty
BuildReady(input) ==
  /\ build_pc = "start"
  /\ source_name = input.source_name
  /\ text = input.text
  /\ chunks = input.chunks
  /\ run = 1
  /\ timestamp = 0
  /\ merged = NoMerged
  /\ BuildLocalsFresh
  /\ vertices = {}
  /\ vectors = {}
  /\ first_run = NoFirstRun

InitBuild ==
  /\ RetrieveIdle
  /\ graph = {}
  /\ ExpandIdle
  /\ CallIdle
  /\ SvcIdle
  /\ \E input \in BuildInputs : BuildReady(input)
  /\ llm_plan = PlanOutcomes
  /\ extractor_ok \in BOOLEAN
  /\ last_run = 2
  /\ faults_left = MaxFaults

NextBuild ==
  \/ BuildEmpty
  \/ BuildStart
  \/ BuildChunk
  \/ BuildMergeRaises
  \/ BuildMerge
  \/ BuildEntity
  \/ BuildEntitiesDone
  \/ BuildEdgeSkip
  \/ BuildEdge
  \/ BuildEdgesDone
  \/ BuildChunkVectors
  \/ BuildNoEntityVectors
  \/ BuildEntityVectors
  \/ BuildReturn
  \/ BuildAgain

SpecBuild == InitBuild /\ [][NextBuild]_vars

\* ------------------------------------------------- properties of a build
\* the entries of the log of the given operation and kind
Entries(op, what) ==
  SelectSeq(build_log, LAMBDA w : w.op = op /\ w.what = what)

\* the failed writes of the running build
FailedWrites ==
  SelectSeq(build_log, LAMBDA w : /\ w.op \in {"vertex", "edge", "vectors"}
                                   /\ w.outcome \in {"raises", "unsuccessful"})

\* the writes of the given kind that were carried out
DoneWrites(op, what) == SelectSeq(Entries(op, what), LAMBDA w : w.outcome = "ok")

\* the chunk loop is over
ChunksProcessed == build_pc \notin {"idle", "start", "chunks"} /\ chunks # <<>>

\* C14: extract never raises: when the LLM call fails or its response holds
\* no JSON object or JSON that cannot be parsed, the extraction result is
\* empty, and the build goes on to the extraction of every remaining chunk.
C14_ExtractFailSoft ==
  /\ extractor_ok =>
       /\ \A k \in 1..Len(build_log) : build_log[k].outcome # "raised"
       /\ \A k \in 1..Len(build_errors) : build_errors[k] # "Entity extraction failed"
  /\ \A k \in 1..Len(build_log) :
       (build_log[k].op = "extract" /\ build_log[k].outcome = "failed") =>
         build_log[k].tag = "empty"
  /\ (build_pc = "chunks" /\ build_i <= Len(chunks)) => ENABLED BuildChunk
  /\ ChunksProcessed =>
       /\ Len(Entries("extract", "chunk")) = Len(chunks)
       /\ \A i \in 1..Len(chunks) : Entries("extract", "chunk")[i].id = chunk_ids[i]

\* the extraction of the first of two chunks failed, the second chunk gave
\* entities, and the build returned a result counting them
C14_Witness ==
  /\ build_result.returned
  /\ Len(chunks) = 2
  /\ Entries("extract", "chunk")[1].outcome = "failed"
  /\ Entries("extract", "chunk")[2].outcome = "ok"
  /\ Entries("extract", "chunk")[2].tag = "some"
  /\ build_result.entities_count > 0

\* C15 (as claimed): every failed write of a vertex, an edge or an embedding
\* batch, raised or reported unsuccessful, adds an entry to errors and is
\* not counted in entities_count and relationships_count, and the remaining
\* items are still processed.
C15_WriteFailures ==
  (build_result.returned /\ chunks # <<>>) =>
    /\ Len(build_errors) = Len(FailedWrites)
    /\ build_result.entities_count = Len(DoneWrites("vertex", "entity"))
    /\ build_result.relationships_count = Len(DoneWrites("edge", "relationship"))
    /\ Len(Entries("vertex", "entity")) = Len(merged.entities)
    /\ Len(Entries("vectors", "chunks")) = 1

\* the relationships of the merge whose two endpoints have a vid
LinkedRelationships ==
  SelectSeq(merged.relationships,
            LAMBDA r : /\ MapGet(entity_vid_map, Lower(r.source)) # ""
                       /\ MapGet(entity_vid_map, Lower(r.target)) # "")

\* C19: no entity or relationship is dropped for its type: every entity
\* of the merge is written as a vertex whose tag is its type when that is
\* one of the fixed tags and "entity" otherwise, and every relationship
\* between written entities as an edge whose type is its relation type when
\* that is one of the fixed edge types and "related_to" otherwise.
C19_TypeCoercion ==
  /\ \A k \in 1..Len(build_log) :
       /\ (build_log[k].op = "vertex" /\ build_log[k].what = "entity") =>
            build_log[k].tag \in ENTITY_TAGS \cup {"entity"}
       /\ (build_log[k].op = "edge" /\ build_log[k].what = "relationship") =>
            build_log[k].tag \in RELATION_EDGE_TYPES
  /\ build_pc \in {"edges", "chunk_vectors", "entity_vectors", "return", "done"} =>
       /\ \A i \in 1..Len(all_entities) :
            \E k \in 1..Len(merged.entities) :
              /\ Lower(merged.entities[k].name) = Lower(all_entities[i].name)
              /\ merged.entities[k].type = all_entities[i].type
       /\ Len(Entries("vertex", "entity")) = Len(merged.entities)
       /\ \A k \in 1..Len(merged.entities) :
            Entries("vertex", "entity")[k].tag =
              (IF merged.entities[k].type \in
                    {"person", "organization", "location", "event", "concept"}
               THEN merged.entities[k].type ELSE "entity")
  /\ build_pc \in {"chunk_vectors", "entity_vectors", "return", "done"} =>
       /\ Len(Entries("edge", "relationship")) = Len(LinkedRelationships)
       /\ \A k \in 1..Len(LinkedRelationships) :
            Entries("edge", "relationship")[k].tag =
              (IF LinkedRelationships[k].relation_type \in RELATION_EDGE_TYPES
               THEN LinkedRelationships[k].relation_type ELSE "related_to")

\* a build has written an entity of type "product" under the tag "entity"
\* and a relationship of type "knows" as a "related_to" edge
C19_Witness ==
  /\ build_result.returned
  /\ \E k \in 1..Len(merged.entities) :
       /\ merged.entities[k].type = "product"
       /\ Entries("vertex", "entity")[k].tag = "entity"
       /\ Entries("vertex", "entity")[k].outcome = "ok"
  /\ \E k \in 1..Len(LinkedRelationships) :
       /\ LinkedRelationships[k].relation_type = "knows"
       /\ Entries("edge", "relationship")[k].tag = "related_to"
       /\ Entries("edge", "relationship")[k].outcome = "ok"

\* the second build of the same input has returned
SecondRunReturned == run = 2 /\ build_result.returned

\* the ids the running build has written, or tried to write
WrittenIds ==
  {build_log[k].id : k \in {j \in 1..Len(build_log) : build_log[j].op = "vertex"}}

\* C16 (as claimed): the second of two builds of one input generates the
\* ids of the first and adds no vertex id and no vector id to the stores.
C16_DeterministicIds_Claimed ==
  SecondRunReturned =>
    /\ GeneratedIds = first_run.ids
    /\ {v.vid : v \in vertices} \subseteq first_run.vertices
    /\ {p.id : p \in vectors} \subseteq first_run.vectors

\* C16 (amended): when the extraction returns the same entities and
\* relationships both times, the second build generates the ids of the
\* first, and every vertex and vector it writes has an id the first build
\* generated.
C16_DeterministicIds ==
  (SecondRunReturned /\ <<all_entities, all_relationships>> = first_run.extracted) =>
    /\ GeneratedIds = first_run.ids
    /\ WrittenIds \subseteq first_run.ids
    /\ {v.vid : v \in vertices} \subseteq first_run.vertices \cup first_run.ids
    /\ {p.id : p \in vectors} \subseteq
         first_run.vectors \cup {ConvertId(id) : id \in first_run.ids}

\* two builds of two chunks returned, with the same two entities extracted
\* both times, and the stores hold the vertices and vectors of the first
C16_Witness ==
  /\ SecondRunReturned
  /\ <<all_entities, all_relationships>> = first_run.extracted
  /\ Len(chunks) = 2
  /\ build_result.entities_count >= 2
  /\ Cardinality(first_run.ids) >= 5
  /\ {v.vid : v \in vertices} = first_run.vertices
  /\ {p.id : p \in vectors} = first_run.vectors
  /\ Cardinality(first_run.vectors) >= 4

\* ---------------- specification: a build followed by a graph expansion
\* the multi-hop scenario of tests/test_knowledge_graph.py (a person who
\* works for an organization located in a city and knows a person who
\* works for another, located in another): its text and what the
\* extraction returns for it
ScenarioText ==
  "Alice works for Acme. Acme is located in Springfield. Alice knows Bob. "
    \o "Bob works for Globex. Globex is located in Shelbyville."

ScenarioAnswer ==
  [NoAnswer EXCEPT
     !.entities = <<RawEntity("Alice", "person", ""),
                    RawEntity("Acme", "organization", ""),
                    RawEntity("Springfield", "location", ""),
                    RawEntity("Bob", "person", ""),
                    RawEntity("Globex", "organization", ""),
                    RawEntity("Shelbyville", "location", "")>>,
     !.relationships = <<RawRelationship("Alice", "works_for", "Acme"),
                         RawRelationship("Acme", "located_in", "Springfield"),
                         RawRelationship("Alice", "knows", "Bob"),
                         RawRelationship("Bob", "works_for", "Globex"),
                         RawRelationship("Globex", "located_in", "Shelbyville")>>]

\* the vid the build gives the entity of the given name and type
VidOf(name, type) == EntityVid([name |-> name, type |-> type], 0)

Alice == VidOf("Alice", "person")
Bob == VidOf("Bob", "person")
Globex == VidOf("Globex", "organization")
Shelbyville == VidOf("Shelbyville", "location")

\* the seed lists and depths of the retrievals that follow the build
ScenarioSeeds == {<<Alice>>, <<Alice, Bob>>}
ScenarioDepths == {0, 3}

InitScenario ==
  /\ RetrieveIdle
  /\ graph = {}
  /\ ExpandIdle
  /\ CallIdle
  /\ SvcIdle
  /\ BuildReady([source_name |-> "alice.txt", text |-> ScenarioText,
                 chunks |-> <<ScenarioText>>])
  /\ llm_plan = {ScenarioAnswer}
  /\ extractor_ok = TRUE
  /\ last_run = 1
  /\ faults_left = 0

\* retrieve calls expand(entity_ids, space, graph_depth, id_to_name) on the
\* graph the build has written
ScenarioExpand ==
  /\ build_pc = "done"
  /\ build_result.returned
  /\ exp_pc = "idle"
  /\ \E ids \in ScenarioSeeds, maxd \in ScenarioDepths : ExpandStart(ids, maxd)
  /\ UNCHANGED <<retVars, graph, otherVars>>

NextScenario ==
  \/ BuildStart
  \/ BuildChunk
  \/ BuildMerge
  \/ BuildEntity
  \/ BuildEntitiesDone
  \/ BuildEdge
  \/ BuildEdgesDone
  \/ BuildChunkVectors
  \/ BuildEntityVectors
  \/ BuildReturn
  \/ ScenarioExpand
  \/ ExpandSkipDeep
  \/ ExpandSkipSeen
  \/ ExpandQueryFails
  \/ ExpandNode
  \/ ExpandReturn

SpecScenario == InitScenario /\ [][NextScenario]_vars

\* every incident-edge query of the expansion was answered: the edges of
\* every queried node are in the context, in one direction or the other
AllQueriesAnswered ==
  \A k \in 1..Len(queried) :
    \A e \in IncidentEdges(graph, queried[k]) :
      \E j \in 1..Len(edges) :
        /\ edges[j].type = e.type
        /\ {edges[j].source, edges[j].target} = {e.src, e.dst}

\* the context edge from a to b of type t
ContextEdge(a, t, b) == [source |-> a, target |-> b, type |-> t]

\* the expansion from the seed Alice to depth 3 has returned, every query
\* answered
AliceExpanded ==
  /\ exp_pc = "done"
  /\ entity_ids = <<Alice>>
  /\ max_depth = 3
  /\ AllQueriesAnswered

JsonAlphabet == {"{", "[", "}", "]", "\"", "\\", "a", ",", " "}

\* the texts of at most n characters of the alphabet
RECURSIVE TextsUpTo(_)
TextsUpTo(n) ==
  IF n = 0 THEN {""}
  ELSE {""} \cup {c \o t : c \in JsonAlphabet, t \in TextsUpTo(n - 1)}

\* responses cut short by the token limit, and responses holding a code
\* fence, a comment and trailing commas
TruncatedTexts ==
  { "{\"a\":[{\"b\":\"xy",
    "{\"a\":[{\"b\":1",
    "{\"a\":[{\"b\":\"x\\\"y",
    "{\"a\":[{\"b\":\"x{y\"},",
    "{\"a\":[1, 2",
    "{\"a\":\"x  ",
    "~~~json\n{\"a\":[1,]",
    "{\"a\":[1, // one\n2",
    "{\"a\":\"http://x\",\"b\":[" }

FixInputs == TextsUpTo(MaxJsonLen) \cup TruncatedTexts

InitFixJson ==
  /\ RetrieveIdle
  /\ graph = {}
  /\ ExpandIdle
  /\ BuildIdle
  /\ SvcIdle
  /\ extractions = <<>>
  /\ raw_json \in FixInputs
  /\ fixed = ""
  /\ context = <<>>
  /\ seed_out = [raised |-> FALSE, seeds |-> <<>>, lookups |-> <<>>, expand |-> FALSE]
  /\ call_pc = "call"

\* fixed = self._fix_json(raw_json)
FixJsonCall ==
  /\ call_pc = "call"
  /\ fixed' = FixJson(raw_json)
  /\ call_pc' = "done"
  /\ UNCHANGED <<retVars, expVars, buildVars, svcVars>>
  /\ UNCHANGED <<extractions, raw_json, context, seed_out>>

NextFixJson == FixJsonCall

SpecFixJson == InitFixJson /\ [][NextFixJson]_vars

\* C18 (as claimed): applied to text with unclosed containers, the repair
\* appends the closers of the open containers, the last opened first, and
\* when the scan ends inside a string the closing quote comes before any
\* closer: text cut inside a string of an object inside an array inside an
\* object receives the quote, then "}", then "]", then "}".
C18_RepairClosers ==
  call_pc = "done" =>
    LET t == Cleaned(raw_json)
        scan == ScanOf(t)
    IN /\ (scan.stack # <<>> /\ CountOf(t, {"{", "["}) > CountOf(t, {"}", "]"})) =>
            fixed = t \o (IF scan.in_string THEN "\"" ELSE "") \o Closers(scan.stack)
       /\ raw_json = "{\"a\":[{\"b\":\"xy" => fixed = "{\"a\":[{\"b\":\"xy\"}]}"

\* -------------------------------------- specification: the answer context
\* the decimal numeral of a number below 100
Dec(i) == IF i < 10 THEN Digit(i) ELSE Digit(i \div 10) \o Digit(i % 10)

\* n retrieval results, every second one without text
ContextResultList(n) ==
  [i \in 1..n |-> [id |-> "r" \o Dec(i), name |-> "r" \o Dec(i), type |-> "chunk",
                   score |-> 100 - i,
                   text |-> IF i % 2 = 1 THEN "text " \o Dec(i) ELSE "",
                   is_entity |-> FALSE]]

\* n graph nodes, every second one without description
ContextNodeList(n) ==
  [i \in 1..n |-> [id |-> "e_" \o Dec(i), name |-> "n" \o Dec(i), type |-> "person",
                   description |-> IF i % 2 = 1 THEN "d" ELSE ""]]

\* the edges of the given types, the i-th one leading to its own target
ContextEdgeList(types) ==
  [i \in 1..Len(types) |->
     [source |-> "e_1", source_name |-> "", target |-> "m" \o Dec(i),
      target_name |-> IF i % 2 = 1 THEN "t" \o Dec(i) ELSE "", type |-> types[i]]]

ContextEdgeTypes == {"works_for", "related_to", "knows"}

\* a edges of another type, then b edges of a priority type, then c edges
\* of another type
TypePattern(a, b, c) ==
  [i \in 1..(a + b + c) |-> IF i > a /\ i <= a + b THEN "located_in" ELSE "uses"]

\* the lists of edge types: the short ones, and long ones around the limit
ContextTypeLists ==
  SeqsUpTo(ContextEdgeTypes, MaxContextEdges)
    \cup {TypePattern(a, b, c) :
            a \in {0, 1}, b \in {CONTEXT_EDGES - 1, CONTEXT_EDGES, CONTEXT_EDGES + 1},
            c \in {0, 1}}

ContextResultCounts == {0, 1, CONTEXT_RESULTS, CONTEXT_RESULTS + 1}
ContextNodeCounts == {0, 1, CONTEXT_NODES, CONTEXT_NODES + 1}

\* graph_context: None, or a GraphContext
ContextGraphs ==
  {NoContext}
    \cup {[present |-> TRUE, nodes |-> ContextNodeList(n), edges |-> ContextEdgeList(ts)] :
            n \in ContextNodeCounts, ts \in ContextTypeLists}

InitContext ==
  /\ search_type = "hybrid"
  /\ caller_expand = FALSE
  /\ expand_graph = FALSE
  /\ use_llm = TRUE
  /\ graph_depth = 0
  /\ hits = <<>>
  /\ min_score = MIN_SIMILARITY_THRESHOLD
  /\ \E n \in ContextResultCounts : results = ContextResultList(n)
  /\ sources = <<>>
  /\ errors = <<>>
  /\ graph_context \in ContextGraphs
  /\ answer = "None"
  /\ success = TRUE
  /\ should_expand = FALSE
  /\ failed = <<>>
  /\ trace = <<>>
  /\ pc = "idle"
  /\ graph = {}
  /\ ExpandIdle
  /\ BuildIdle
  /\ SvcIdle
  /\ extractions = <<>>
  /\ raw_json = ""
  /\ fixed = ""
  /\ context = <<>>
  /\ seed_out = [raised |-> FALSE, seeds |-> <<>>, lookups |-> <<>>, expand |-> FALSE]
  /\ call_pc = "call"

\* context = self.build_context(results, graph_context)
BuildContextCall ==
  /\ call_pc = "call"
  /\ context' = BuildContext(results, graph_context)
  /\ call_pc' = "done"
  /\ UNCHANGED <<retVars, expVars, buildVars, svcVars>>
  /\ UNCHANGED <<extractions, raw_json, fixed, seed_out>>

NextContext == BuildContextCall

SpecContext == InitContext /\ [][NextContext]_vars

\* the parts of the given kind, in the order of the context
PartsOf(kind) == SelectSeq(context, LAMBDA p : p.kind = kind)

\* the sections of the context, in the order claimed
SectionOf(part) ==
  CASE part.kind \in {"result", "text"} -> 1
    [] part.kind = "node" -> 2
    [] part.kind = "edge" -> 3
    [] part.kind = "header" ->
         (CASE part.title = "Retrieved Information" -> 1
            [] part.title = "Related Entities" -> 2
            [] OTHER -> 3)

\* the position in graph_context.edges of the edge a part renders (the
\* edges of the inputs have targets of their own)
EdgeIndex(part) ==
  CHOOSE k \in 1..Len(graph_context.edges) :
    part.tgt \in {graph_context.edges[k].target, graph_context.edges[k].target_name}

IsPriority(k) == graph_context.edges[k].type \in CONTEXT_PRIORITY_TYPES

\* the edges that come before the edge k in the order claimed
Before(k) ==
  {j \in 1..Len(graph_context.edges) :
     \/ IsPriority(j) /\ ~IsPriority(k)
     \/ IsPriority(j) = IsPriority(k) /\ j < k}

Rendered(k) == \E i \in 1..Len(PartsOf("edge")) : EdgeIndex(PartsOf("edge")[i]) = k

\* C20: the context holds at most 10 results, then at most 20 nodes, then
\* at most 40 edges, in that order; every edge of a priority type comes
\* before every other edge, each group in the order of the GraphContext,
\* and an edge is left out only when 40 edges come before it: a priority
\* edge only when 40 priority edges precede it.
C20_ContextOrder ==
  call_pc = "done" =>
    /\ Len(PartsOf("result")) = Min(Len(results), CONTEXT_RESULTS)
    /\ \A i \in 1..Len(PartsOf("result")) :
         /\ PartsOf("result")[i].index = i
         /\ PartsOf("result")[i].name = results[i].name
    /\ Len(PartsOf("node")) = Min(Len(graph_context.nodes), CONTEXT_NODES)
    /\ \A i \in 1..Len(PartsOf("node")) :
         PartsOf("node")[i].name = graph_context.nodes[i].name
    /\ Len(PartsOf("edge")) = Min(Len(graph_context.edges), CONTEXT_EDGES)
    /\ \A i, j \in 1..Len(context) : i < j => SectionOf(context[i]) <= SectionOf(context[j])
    /\ \A i, j \in 1..Len(PartsOf("edge")) :
         i < j => EdgeIndex(PartsOf("edge")[i]) \in Before(EdgeIndex(PartsOf("edge")[j]))
    /\ \A k \in 1..Len(graph_context.edges) :
         ~Rendered(k) =>
           /\ Cardinality(Before(k)) >= CONTEXT_EDGES
           /\ IsPriority(k) =>
                Cardinality({j \in 1..(k - 1) : IsPriority(j)}) >= CONTEXT_EDGES

\* 10 of 11 results, 20 of 21 nodes and 40 of 43 edges were rendered: the
\* edge of another type that came first and the 41st priority edge are
\* left out
C20_Witness ==
  /\ call_pc = "done"
  /\ Len(results) = CONTEXT_RESULTS + 1
  /\ Len(PartsOf("result")) = CONTEXT_RESULTS
  /\ Len(graph_context.nodes) = CONTEXT_NODES + 1
  /\ Len(PartsOf("node")) = CONTEXT_NODES
  /\ Len(graph_context.edges) = CONTEXT_EDGES + 3
  /\ Len(PartsOf("edge")) = CONTEXT_EDGES
  /\ ~IsPriority(1) /\ ~Rendered(1)
  /\ IsPriority(CONTEXT_EDGES + 2) /\ ~Rendered(CONTEXT_EDGES + 2)
  /\ EdgeIndex(PartsOf("edge")[1]) = 2

\* ------------------------------------ specification: the seed collection
\* a chunk point of a document "report.pdf", as the build writes it
PdfChunkKind ==
  [id |-> "chunk_1", entity_id |-> "", chunk_id |-> "chunk_1", is_entity |-> FALSE,
   name |-> "", document_name |-> "report.pdf"]

SeedHitKinds == HitKinds \cup {PdfChunkKind}

\* the names of the documents the chunk points come from
DocumentNames == {k.document_name : k \in SeedHitKinds} \ {""}

\* the results of vector search for those points and of graph search
SeedResultKinds ==
  {ResultOf([id |-> k.id, entity_id |-> k.entity_id, chunk_id |-> k.chunk_id,
             is_entity |-> k.is_entity, name |-> k.name,
             document_name |-> k.document_name, score |-> 90]) : k \in SeedHitKinds}
    \cup {r \in Range(GraphSearchResults(<<"e_a", "e_b">>)) : r.id = "e_b"}

TxtChunkResult == CHOOSE r \in SeedResultKinds : r.name = "doc.txt"

\* the result lists: the short ones, and five chunks of "doc.txt" followed
\* by a sixth result
SeedResultLists ==
  SeqsUpTo(SeedResultKinds, MaxSeedResults)
    \cup {[i \in 1..(NAME_LOOKUP_LIMIT + 1) |->
             IF i <= NAME_LOOKUP_LIMIT THEN TxtChunkResult ELSE r] : r \in SeedResultKinds}

InitSeeds ==
  /\ search_type = "hybrid"
  /\ caller_expand = TRUE
  /\ expand_graph = TRUE
  /\ use_llm = FALSE
  /\ graph_depth = 2
  /\ hits = <<>>
  /\ min_score = MIN_SIMILARITY_THRESHOLD
  /\ results \in SeedResultLists
  /\ sources = <<>>
  /\ errors = <<>>
  /\ graph_context = NoContext
  /\ answer = "None"
  /\ success = TRUE
  /\ should_expand = TRUE
  /\ failed = <<>>
  /\ trace = <<>>
  /\ pc = "idle"
  /\ graph \in SUBSET ExtractedFromEdges
  /\ ExpandIdle
  /\ BuildIdle
  /\ SvcIdle
  /\ extractions = <<>>
  /\ raw_json = ""
  /\ fixed = ""
  /\ context = <<>>
  /\ seed_out = [raised |-> FALSE, seeds |-> <<>>, lookups |-> <<>>, expand |-> FALSE]
  /\ call_pc = "call"

\* "Collect entity IDs", up to the decision to call expand
SeedsCall ==
  /\ call_pc = "call"
  /\ seed_out' \in SeedOutcomes(results, graph)
  /\ call_pc' = "done"
  /\ UNCHANGED <<retVars, expVars, buildVars, svcVars>>
  /\ UNCHANGED <<extractions, raw_json, fixed, context>>

NextSeeds == SeedsCall

SpecSeeds == InitSeeds /\ [][NextSeeds]_vars

\* the ids of the results flagged as entities
FlaggedIds == Ids(SelectSeq(results, LAMBDA r : r.is_entity))

\* the lookups of the given kind that were issued
LookupsOf(kind) == SelectSeq(seed_out.lookups, LAMBDA q : q.kind = kind)

\* C17 (as claimed): the seeds start with the ids of the results flagged as
\* entities; the reverse extracted_from lookup is consulted only when these
\* are fewer than 3; the exact-name lookup is consulted only when there is
\* no seed yet, over at most the first 5 results, and never for a result
\* that carries the name of its document; expand is invoked exactly when
\* the final seed list is not empty.
C17_SeedPriority ==
  (call_pc = "done" /\ ~seed_out.raised) =>
    /\ Prefix(seed_out.seeds, Len(FlaggedIds)) = FlaggedIds
    /\ LookupsOf("chunk") # <<>> => Len(FlaggedIds) < DIRECT_SEEDS_ENOUGH
    /\ LookupsOf("name") # <<>> => FlaggedIds = <<>>
    /\ Len(LookupsOf("name")) <= NAME_LOOKUP_LIMIT
    /\ \A k \in 1..Len(LookupsOf("name")) :
         /\ \E i \in 1..Min(NAME_LOOKUP_LIMIT, Len(results)) :
              results[i].name = LookupsOf("name")[k].key
         /\ LookupsOf("name")[k].key \notin DocumentNames
    /\ seed_out.expand <=> seed_out.seeds # <<>>

\* ------------------------------------------- expand under fair scheduling
\* the while loop of expand runs on until the queue is empty
SpecExpandFair == InitExpand /\ [][NextExpand]_vars /\ WF_vars(NextExpand)

\* C21: expand terminates on every finite graph, cycles and self-loops
\* included, and issues the incident-edge query of a node id at most once.
C21_Terminates ==
  /\ [](\A i, j \in 1..Len(queried) : i # j => queried[i] # queried[j])
  /\ <>(exp_pc = "done")

\* expand has returned on a graph with a self-loop and a cycle of two
\* nodes, each of them queried
C21_Witness ==
  /\ exp_pc = "done"
  /\ \E e \in graph : e.src = e.dst
  /\ \E e, f \in graph : e.src # e.dst /\ f.src = e.dst /\ f.dst = e.src
  /\ {"e_a", "e_b"} \subseteq Range(queried)

\* two edges of the context with the same type and the same two endpoints
SameUndirected(a, b) ==
  a.type = b.type /\ {a.source, a.target} = {b.source, b.target}

\* C22: no two edges of GraphContext.edges have the same type and the same
\* unordered pair of endpoints; an edge met again, from the other endpoint
\* or from the same one, is not added, and an edge once recorded stays as
\* it was recorded, direction included.
C22_EdgeDedup ==
  /\ [](\A i, j \in 1..Len(edges) : i # j => ~SameUndirected(edges[i], edges[j]))
  /\ [][exp_pc = "loop" => /\ Len(edges') >= Len(edges)
                           /\ SubSeq(edges', 1, Len(edges)) = edges]_vars

\* expand has returned after querying both endpoints of an edge that the
\* graph holds in both directions with one type: the context holds it
\* once, from the endpoint queried first
C22_Witness ==
  /\ exp_pc = "done"
  /\ Len(queried) >= 2
  /\ \E e, f \in graph :
       /\ e.src = queried[1] /\ e.dst = queried[2] /\ e.src # e.dst
       /\ f.src = e.dst /\ f.dst = e.src /\ f.type = e.type
       /\ Cardinality({k \in 1..Len(edges) :
                         /\ edges[k].type = e.type
                         /\ {edges[k].source, edges[k].target} = {e.src, e.dst}}) = 1
       /\ \E k \in 1..Len(edges) :
            edges[k] = [source |-> e.src, target |-> e.dst, type |-> e.type]

\* the step being taken is a failed incident-edge query
QueryFailing == Len(failed_queries') > Len(failed_queries)

\* the edges of the graph at a node whose query was answered are in the
\* context, in one direction or the other
Answered(vid) ==
  \A e \in IncidentEdges(graph, vid) :
    \E j \in 1..Len(edges) :
      /\ edges[j].type = e.type
      /\ {edges[j].source, edges[j].target} = {e.src, e.dst}

\* C24: a failed incident-edge query adds no node and no edge and leaves
\* the rest of the queue in place for the loop to go on with; no edge
\* of the returned context starts at a node whose query failed, and every
\* other node queried has its edges in the context as usual.
C24_QueryFailure ==
  /\ [][QueryFailing => /\ nodes' = nodes
                        /\ edges' = edges
                        /\ pending_expansion' = Tail(pending_expansion)
                        /\ exp_pc' = "loop"]_vars
  /\ [](exp_pc = "done" =>
         /\ \A k \in 1..Len(edges) : edges[k].source \notin Range(failed_queries)
         /\ \A v \in Range(queried) \ Range(failed_queries) : Answered(v))

\* expand has returned a context with an edge, after the query of the
\* seed was answered and the query of a neighbour with edges failed
C24_Witness ==
  /\ exp_pc = "done"
  /\ Len(queried) >= 2
  /\ failed_queries = <<queried[2]>>
  /\ IncidentEdges(graph, queried[2]) # {}
  /\ edges # <<>>
  /\ nodes # <<>>
  /\ Len(queried) >= 3

\* ------------------------------------------------- the limits of expand
\* expand on the graphs above and on the wide graph
InitExpandWide ==
  /\ RetrieveIdle
  /\ OtherIdle
  /\ \/ graph \in Graphs /\ entity_ids \in SeedLists
     \/ graph = WideGraph /\ entity_ids \in {<<"e_a">>, <<"n01", "e_a">>}
  /\ max_depth \in 0..MaxDepth
  /\ pending_expansion = SeedEntries(entity_ids)
  /\ seen_nodes = {}
  /\ seen_edges = {}
  /\ nodes = <<>>
  /\ edges = <<>>
  /\ queried = <<>>
  /\ failed_queries = <<>>
  /\ exp_pc = "loop"

SpecExpandWide == InitExpandWide /\ [][NextExpand]_vars

\* the step being taken queries the node at the head of the queue
Expanding == Len(queried') > Len(queried)

\* the entries the step being taken puts on the queue
NewEntries ==
  SubSeq(pending_expansion', Len(pending_expansion), Len(pending_expansion'))

\* C25: a node is expanded only at a depth of at most max_depth; the step
\* that takes an entry of depth d off the queue puts at most 15 entries on
\* it when d < max_depth, each of depth d + 1, and none otherwise.
C25_DepthAndFanout ==
  [][(exp_pc = "loop" /\ pending_expansion # <<>>) =>
       LET d == Head(pending_expansion).depth
       IN /\ Expanding => d <= max_depth
          /\ SubSeq(pending_expansion', 1, Len(pending_expansion) - 1)
               = Tail(pending_expansion)
          /\ Len(NewEntries) <= (IF d < max_depth THEN NEIGHBOR_LIMIT ELSE 0)
          /\ \A k \in 1..Len(NewEntries) : NewEntries[k].depth = d + 1]_vars

\* the node of sixteen neighbours was expanded below max_depth and fifteen
\* of them are on the queue
C25_Witness ==
  /\ graph = WideGraph
  /\ queried = <<"e_a">>
  /\ failed_queries = <<>>
  /\ Len(nodes) = Len(LeafIds)
  /\ Len(pending_expansion) = NEIGHBOR_LIMIT
  /\ \A k \in 1..Len(pending_expansion) : pending_expansion[k].depth = 2

\* ------------------------------------------- the context is closed
\* the ids of the nodes of the context
NodeIds == {nodes[i].id : i \in 1..Len(nodes)}

\* C28: the source and the target of every edge of the context are each an
\* enqueued seed or the id of a node of the context, and every node of the
\* context is an endpoint of an edge of the context.
C28_ContextClosed ==
  /\ \A k \in 1..Len(edges) :
       /\ edges[k].source \in EnqueuedSeeds \cup NodeIds
       /\ edges[k].target \in EnqueuedSeeds \cup NodeIds
  /\ \A i \in 1..Len(nodes) :
       \E k \in 1..Len(edges) : nodes[i].id \in {edges[k].source, edges[k].target}

\* expand has returned a context with an edge that starts at a node found
\* on the way and an edge from a node to itself
C28_Witness ==
  /\ exp_pc = "done"
  /\ \E k \in 1..Len(edges) :
       edges[k].source \notin EnqueuedSeeds /\ edges[k].target # edges[k].source
  /\ \E k \in 1..Len(edges) : edges[k].source = edges[k].target
  /\ nodes # <<>>

\* ------------------------------------- no context without results
\* C29: a response with a graph context has results; hence a response
\* without results has no graph context, answer generation was not called
\* for it and its answer is null, use_llm or not.
C29_ContextNeedsResults ==
  /\ graph_context.present => results # <<>>
  /\ (pc = "done" /\ results = <<>>) =>
       /\ ~graph_context.present
       /\ answer = "None"
       /\ "llm" \notin Range(trace)

\* a graph-mode request with use_llm whose search found nothing went
\* through the seed collection on a graph with an edge, and returned
C29_Witness ==
  /\ pc = "done"
  /\ search_type = "graph"
  /\ use_llm
  /\ should_expand
  /\ graph # {}
  /\ results = <<>>
  /\ answer = "None"

\* ------------------------------------- entities of one name, two types
\* an extraction that names "Kit" as a person, where AnswerB has a
\* product of that name
AnswerC ==
  [NoAnswer EXCEPT
     !.entities = <<RawEntity("Ann", "person", ""), RawEntity("Kit", "person", "")>>,
     !.relationships = <<RawRelationship("Ann", "knows", "Kit")>>]

InitBuildTyped ==
  /\ RetrieveIdle
  /\ graph = {}
  /\ ExpandIdle
  /\ CallIdle
  /\ SvcIdle
  /\ \E input \in BuildInputs : BuildReady(input)
  /\ llm_plan = PlanOutcomes \cup {AnswerC}
  /\ extractor_ok \in BOOLEAN
  /\ last_run = 2
  /\ faults_left = MaxFaults

SpecBuildTyped == InitBuildTyped /\ [][NextBuild]_vars

\* the merged entities a relationship endpoint names
Named(name) ==
  {i \in 1..Len(merged.entities) : Lower(merged.entities[i].name) = Lower(name)}

\* C30 (as claimed): after a build whose writes all went through, every
\* entity of the merge has a vector stored under the id of its own vertex,
\* with that id as entity_id and its name, and every relationship between
\* merged entities is an edge between the vertices of the entities it names.
C30_OwnVertex ==
  (build_result.returned /\ run = 1 /\ FailedWrites = <<>>) =>
    /\ \A i \in 1..Len(merged.entities) :
         \E p \in vectors :
           /\ p.original_id = EntityVid(merged.entities[i], timestamp)
           /\ p.entity_id = EntityVid(merged.entities[i], timestamp)
           /\ p.name = merged.entities[i].name
    /\ \A k \in 1..Len(merged.relationships) :
         \A i \in Named(merged.relationships[k].source) :
           \A j \in Named(merged.relationships[k].target) :
             [src |-> EntityVid(merged.entities[i], timestamp),
              type |-> EdgeType(merged.relationships[k].relation_type),
              dst |-> EntityVid(merged.entities[j], timestamp)] \in graph

\* ------------------------ specification: a build followed by a retrieve
\* the hit the vector store returns for a point the build has written
HitOf(p, score) ==
  [id |-> p.id, entity_id |-> p.entity_id, chunk_id |-> p.chunk_id,
   is_entity |-> p.is_entity, name |-> p.name,
   document_name |-> p.document_name, score |-> score]

\* the hit lists of a query: points of the collection, by decreasing score
BuiltHitLists(vecs) ==
  {h \in SeqsUpTo({HitOf(p, sc) : p \in vecs, sc \in RetrieveScores}, MaxHits) :
     \A i \in 1..(Len(h) - 1) : h[i].score >= h[i + 1].score}

InitBuildQuery ==
  /\ RetrieveIdle
  /\ graph = {}
  /\ ExpandIdle
  /\ CallIdle
  /\ SvcIdle
  /\ \E input \in BuildInputs : BuildReady(input)
  /\ llm_plan = PlanOutcomes
  /\ extractor_ok = TRUE
  /\ last_run = 1
  /\ faults_left = 0

\* retrieve(query, "hybrid", expand_graph = True) on the stores the build
\* has written
QueryStart ==
  /\ build_pc = "done"
  /\ build_result.returned
  /\ pc = "idle"
  /\ search_type' = "hybrid"
  /\ caller_expand' = TRUE
  /\ expand_graph' = TRUE
  /\ use_llm' = FALSE
  /\ graph_depth' \in GraphDepths
  /\ hits' \in BuiltHitLists(vectors)
  /\ pc' = "search"
  /\ UNCHANGED <<min_score, results, sources, errors, graph_context, answer, success,
                 should_expand, failed, trace>>
  /\ UNCHANGED <<expVars, otherVars>>

NextBuildQuery ==
  \/ BuildEmpty
  \/ BuildStart
  \/ BuildChunk
  \/ BuildMerge
  \/ BuildEntity
  \/ BuildEntitiesDone
  \/ BuildEdgeSkip
  \/ BuildEdge
  \/ BuildEdgesDone
  \/ BuildChunkVectors
  \/ BuildNoEntityVectors
  \/ BuildEntityVectors
  \/ BuildReturn
  \/ QueryStart
  \/ RetrieveVectorSearch
  \/ RetrieveVectorSearchFails
  \/ RetrieveSkipExpansion
  \/ RetrieveExpansionFails
  \/ RetrieveNoSeeds
  \/ RetrieveExpand
  \/ ExpandSkipDeep
  \/ ExpandSkipSeen
  \/ ExpandQueryFails
  \/ ExpandNode
  \/ ExpandReturn
  \/ RetrieveExpanded
  \/ RetrieveNoAnswer

SpecBuildQuery == InitBuildQuery /\ [][NextBuildQuery]_vars

\* the extraction of the chunk returned something at build time
ExtractedSome(chunk_id) ==
  \E k \in 1..Len(build_log) :
    /\ build_log[k].op = "extract"
    /\ build_log[k].id = chunk_id
    /\ build_log[k].tag = "some"

\* the response of a hybrid query whose results are chunks of the build
\* that entities were extracted from, and that passed the quality gate
ChunkOnlyResponse ==
  /\ pc = "done"
  /\ errors = <<>>
  /\ results # <<>>
  /\ \A i \in 1..Len(results) : ~results[i].is_entity /\ ExtractedSome(results[i].id)
  /\ merged.entities # <<>>
  /\ should_expand

\* C23 (as claimed): a hybrid query on the stores of a build whose results
\* are chunks only, entities having been extracted from them, and pass the
\* quality gate, is answered with a graph context.
C23_ChunkFallback == ChunkOnlyResponse => graph_context.present

\* --------------------------------- specification: the build endpoints
\* defaults of the request body (api/build.py) and of get_build_service
API_CHUNK_SIZE == 1000
API_CHUNK_OVERLAP == 200
SERVICE_CHUNK_SIZE == 500
SERVICE_CHUNK_OVERLAP == 100

Absent == [given |-> FALSE, value |-> 0]

\* the bodies of the build requests: chunk_size and chunk_overlap given or not
BuildBodies ==
  [chunk_size : {Absent, [given |-> TRUE, value |-> 300]},
   chunk_overlap : {Absent, [given |-> TRUE, value |-> 50]}]

\* data.get(key, default)
GetOr(field, default) == IF field.given THEN field.value ELSE default

NoBuilder == [made |-> FALSE, chunk_size |-> 0, chunk_overlap |-> 0]

\* get_build_service: the singleton is constructed on the first call only
GetBuildService(svc, chunk_size, chunk_overlap) ==
  IF svc.made THEN svc
  ELSE [made |-> TRUE, chunk_size |-> chunk_size, chunk_overlap |-> chunk_overlap,
        builder |-> NoBuilder]

\* BuildService.builder: the builder is constructed on first use, with the
\* sizes of the service; its chunker is constructed with the builder's
BuilderOf(svc) ==
  IF svc.builder.made THEN svc.builder
  ELSE [made |-> TRUE, chunk_size |-> svc.chunk_size,
        chunk_overlap |-> svc.chunk_overlap]

InitEndpoints ==
  /\ RetrieveIdle
  /\ graph = {}
  /\ ExpandIdle
  /\ CallIdle
  /\ BuildIdle
  /\ SvcIdle

\* POST /build/text
BuildFromTextPost ==
  /\ Len(served) < MaxRequests
  /\ \E body \in BuildBodies :
       LET chunk_size == GetOr(body.chunk_size, API_CHUNK_SIZE)
           chunk_overlap == GetOr(body.chunk_overlap, API_CHUNK_OVERLAP)
           service == GetBuildService(build_service, chunk_size, chunk_overlap)
           builder == BuilderOf(service)
       IN /\ build_service' = [service EXCEPT !.builder = builder]
          /\ served' = Append(served,
                          [chunk_size |-> chunk_size, chunk_overlap |-> chunk_overlap,
                           used_size |-> builder.chunk_size,
                           used_overlap |-> builder.chunk_overlap])
  /\ UNCHANGED <<retVars, expVars, callVars, buildVars>>
  /\ UNCHANGED <<retrieval_service, svc_graph_service, graph_services, pools, req>>

\* POST /build/init-schema
InitSchemaPost ==
  /\ Len(served) < MaxRequests
  /\ build_service' =
       GetBuildService(build_service, SERVICE_CHUNK_SIZE, SERVICE_CHUNK_OVERLAP)
  /\ UNCHANGED <<retVars, expVars, callVars, buildVars>>
  /\ UNCHANGED <<served, retrieval_service, svc_graph_service, graph_services,
                 pools, req>>

NextEndpoints ==
  \/ BuildFromTextPost
  \/ InitSchemaPost

SpecEndpoints == InitEndpoints /\ [][NextEndpoints]_vars

\* C26 (as claimed): every build request is chunked with the chunk_size and
\* the chunk_overlap of its own body, 1000 and 200 where the body gives none.
C26_PerRequestChunking ==
  \A i \in 1..Len(served) :
    /\ served[i].used_size = served[i].chunk_size
    /\ served[i].used_overlap = served[i].chunk_overlap

\* ------------- specification: two requests make the first use of retrieve
\* two request threads call get_retrieval_service and then query the graph
\* through the expansion service; a thread may be suspended between any two
\* reads and writes of the shared objects
InitFirstUse ==
  /\ RetrieveIdle
  /\ graph = {}
  /\ ExpandIdle
  /\ CallIdle
  /\ BuildIdle
  /\ build_service = NoService
  /\ served = <<>>
  /\ retrieval_service = 0
  /\ svc_graph_service = <<>>
  /\ graph_services = <<>>
  /\ pools = <<>>
  /\ req = [t \in Threads |-> [IdleRequest EXCEPT !.pc = "start"]]

\* what no request of this specification touches
RequestFrame == UNCHANGED <<retVars, expVars, callVars, buildVars, build_service, served>>

\* the thread moves to the given position
Goto(t, pc2) == req' = [req EXCEPT ![t].pc = pc2]

\* get_retrieval_service: "if _retrieval_service is None"
GetServiceCheck(t) ==
  /\ req[t].pc = "start"
  /\ Goto(t, IF retrieval_service = 0 THEN "svc_create" ELSE "svc_return")
  /\ UNCHANGED <<retrieval_service, svc_graph_service, graph_services, pools>>
  /\ RequestFrame

\* "_retrieval_service = RetrievalService()"
GetServiceCreate(t) ==
  /\ req[t].pc = "svc_create"
  /\ svc_graph_service' = Append(svc_graph_service, 0)
  /\ retrieval_service' = Len(svc_graph_service) + 1
  /\ Goto(t, "svc_return")
  /\ UNCHANGED <<graph_services, pools>>
  /\ RequestFrame

\* "return _retrieval_service"
GetServiceReturn(t) ==
  /\ req[t].pc = "svc_return"
  /\ req' = [req EXCEPT ![t].svc = retrieval_service, ![t].pc = "gs_check"]
  /\ UNCHANGED <<retrieval_service, svc_graph_service, graph_services, pools>>
  /\ RequestFrame

\* GraphExpansionService.graph_service: "if self._graph_service is None"
GraphServiceCheck(t) ==
  /\ req[t].pc = "gs_check"
  /\ Goto(t, IF svc_graph_service[req[t].svc] = 0 THEN "gs_create" ELSE "gs_return")
  /\ UNCHANGED <<retrieval_service, svc_graph_service, graph_services, pools>>
  /\ RequestFrame

\* "self._graph_service = get_graph_service()"
GraphServiceCreate(t) ==
  /\ req[t].pc = "gs_create"
  /\ graph_services' = Append(graph_services, [pool |-> 0, initialized |-> FALSE])
  /\ svc_graph_service' =
       [svc_graph_service EXCEPT ![req[t].svc] = Len(graph_services) + 1]
  /\ Goto(t, "gs_connect")
  /\ UNCHANGED <<retrieval_service, pools>>
  /\ RequestFrame

\* "self._graph_service.connect()": the attribute is read again
GraphServiceConnect(t) ==
  /\ req[t].pc = "gs_connect"
  /\ req' = [req EXCEPT ![t].self = svc_graph_service[req[t].svc],
                        ![t].ret = "gs_return", ![t].pc = "connect_check"]
  /\ UNCHANGED <<retrieval_service, svc_graph_service, graph_services, pools>>
  /\ RequestFrame

\* NebulaGraphService.connect: "if self._initialized: return"
ConnectCheck(t) ==
  /\ req[t].pc = "connect_check"
  /\ Goto(t, IF graph_services[req[t].self].initialized
             THEN req[t].ret ELSE "connect_pool")
  /\ UNCHANGED <<retrieval_service, svc_graph_service, graph_services, pools>>
  /\ RequestFrame

\* "self._pool = ConnectionPool()"
ConnectNewPool(t) ==
  /\ req[t].pc = "connect_pool"
  /\ pools' = Append(pools, [inits |-> 0])
  /\ graph_services' = [graph_services EXCEPT ![req[t].self].pool = Len(pools) + 1]
  /\ Goto(t, "connect_init")
  /\ UNCHANGED <<retrieval_service, svc_graph_service>>
  /\ RequestFrame

\* "self._pool.init(hosts, config)", on the pool the attribute holds now
ConnectInit(t) ==
  /\ req[t].pc = "connect_init"
  /\ pools' = [pools EXCEPT ![graph_services[req[t].self].pool].inits = @ + 1]
  /\ Goto(t, "connect_done")
  /\ UNCHANGED <<retrieval_service, svc_graph_service, graph_services>>
  /\ RequestFrame

\* "self._initialized = True"
ConnectDone(t) ==
  /\ req[t].pc = "connect_done"
  /\ graph_services' = [graph_services EXCEPT ![req[t].self].initialized = TRUE]
  /\ Goto(t, req[t].ret)
  /\ UNCHANGED <<retrieval_service, svc_graph_service, pools>>
  /\ RequestFrame

\* "return self._graph_service"
GraphServiceReturn(t) ==
  /\ req[t].pc = "gs_return"
  /\ req' = [req EXCEPT ![t].gs = svc_graph_service[req[t].svc],
                        ![t].pc = "session_check"]
  /\ UNCHANGED <<retrieval_service, svc_graph_service, graph_services, pools>>
  /\ RequestFrame

\* execute, _get_session: "if not self._initialized: self.connect()"
GetSessionCheck(t) ==
  /\ req[t].pc = "session_check"
  /\ req' = IF graph_services[req[t].gs].initialized
            THEN [req EXCEPT ![t].pc = "session_get"]
            ELSE [req EXCEPT ![t].self = req[t].gs, ![t].ret = "session_get",
                             ![t].pc = "connect_check"]
  /\ UNCHANGED <<retrieval_service, svc_graph_service, graph_services, pools>>
  /\ RequestFrame

\* "return self._pool.get_session(...)": the query runs on that pool
GetSession(t) ==
  /\ req[t].pc = "session_get"
  /\ req' = [req EXCEPT ![t].pool = graph_services[req[t].gs].pool, ![t].pc = "done"]
  /\ UNCHANGED <<retrieval_service, svc_graph_service, graph_services, pools>>
  /\ RequestFrame

NextFirstUse ==
  \/ \E t \in Threads : GetServiceCheck(t)
  \/ \E t \in Threads : GetServiceCreate(t)
  \/ \E t \in Threads : GetServiceReturn(t)
  \/ \E t \in Threads : GraphServiceCheck(t)
  \/ \E t \in Threads : GraphServiceCreate(t)
  \/ \E t \in Threads : GraphServiceConnect(t)
  \/ \E t \in Threads : ConnectCheck(t)
  \/ \E t \in Threads : ConnectNewPool(t)
  \/ \E t \in Threads : ConnectInit(t)
  \/ \E t \in Threads : ConnectDone(t)
  \/ \E t \in Threads : GraphServiceReturn(t)
  \/ \E t \in Threads : GetSessionCheck(t)
  \/ \E t \in Threads : GetSession(t)

SpecFirstUse == InitFirstUse /\ [][NextFirstUse]_vars

\* C27 (as claimed): when both requests have run their query, one retrieval
\* service, one graph service and one connection pool were created, the
\* pool was initialised once, and both requests ran on that pool.
C27_CreatedOnce ==
  (\A t \in Threads : req[t].pc = "done") =>
    /\ Len(svc_graph_service) = 1
    /\ Len(graph_services) = 1
    /\ Len(pools) = 1
    /\ pools[1].inits = 1
    /\ \A t \in Threads : req[t].pool = 1

====
